---- MODULE Spec2Model ----
(***************************************************************************)
(* Chronoverse generation pipeline: the OpenAI adapter                     *)
(* (app/adapters/registry.py), the poem orchestration service              *)
(* (app/services/poem_service.py), the process-local TTL cache             *)
(* (app/services/cache.py) and the event store aggregate                   *)
(* (app/data/events.py).                                                   *)
(*                                                                         *)
(* Conventions.  Money is counted in micro-dollars (1 USD = 1000000), so   *)
(* cost_usd, which the code rounds to 6 decimals, is an integer.  Time is  *)
(* counted in whole minutes.  Python's None is the string "None" for       *)
(* string fields, NoneInt for integer fields and NoParams for dicts.  A    *)
(* Python dict is a function from its keys to strings.  The event store    *)
(* is taken to be reliable (write_event and today_cost_sum do not raise).  *)
(***************************************************************************)
EXTENDS Integers, Sequences, FiniteSets, Bags, TLC

\* ------------------------------------------------------------------ bounds
MaxReq == 2
MaxTime == 1
MinutesPerDay == 1

\* ------------------------------------------------------- program constants
DAILY_COST_LIMIT_USD == 500000
CacheTTL == 1
AB_SPLIT == 20

PRIMARY_MODEL == "gpt-5"
SECONDARY_MODEL == "gpt-5-mini"
LegacyModel == "gpt-4o"

NoneInt == 0 - 1
NoParams == [k \in {} |-> "None"]

Tones == {"Stoic", "Haiku"}
Timezones == {"UTC"}

\* ------------------------------------------------------------ the adapter

\* Model names the adapter is called with.
AdapterModels == {PRIMARY_MODEL, SECONDARY_MODEL, LegacyModel}

\* model.startswith("gpt-5")
_is_gpt5(model) == model \in {"gpt-5", "gpt-5-mini", "gpt-5-nano"}

allowed_v == {"low", "medium", "high"}
allowed_e == {"minimal", "low", "medium", "high"}

\* Values of VERBOSITY / REASONING_EFFORT after strip().lower().
EnvVerbosity == {"low", "high", "verbose"}
EnvEffort == {"low", "minimal", ""}
\* The temperature argument of generate; "None" when the caller gives none.
Temperatures == {"None", "0.7"}

Pop(d, k) == [x \in (DOMAIN d) \ {k} |-> d[x]]
Put(d, k, v) == [x \in (DOMAIN d) \cup {k} |-> IF x = k THEN v ELSE d[x]]

\* a shaping that passes the caller's temperature to every model family
BuildKwargs_temperatureForAll(model, temperature, raw_v, raw_e) ==
    LET base == [k \in {"model", "input", "max_output_tokens"} |->
                    IF k = "model" THEN model
                    ELSE IF k = "input" THEN "prompt" ELSE "500"]
        k0 == IF temperature # "None" THEN Put(base, "temperature", temperature) ELSE base
    IN IF _is_gpt5(model)
       THEN LET k1 == Put(k0, "text", IF raw_v \in allowed_v THEN raw_v ELSE "format")
            IN IF raw_e \in allowed_e THEN Put(k1, "reasoning", raw_e) ELSE k1
       ELSE k0

\* kwargs and params_used as generate builds them before the first call.
\* The "text" block always carries the format; its value here is the
\* verbosity it carries, or "format" when it carries none.
BuildKwargs(model, temperature, raw_v, raw_e) ==
    LET base == [k \in {"model", "input", "max_output_tokens"} |->
                    IF k = "model" THEN model
                    ELSE IF k = "input" THEN "prompt" ELSE "500"]
    IN IF _is_gpt5(model)
       THEN LET k1 == Put(base, "text", IF raw_v \in allowed_v THEN raw_v ELSE "format")
            IN IF raw_e \in allowed_e THEN Put(k1, "reasoning", raw_e) ELSE k1
       ELSE IF temperature # "None" THEN Put(base, "temperature", temperature) ELSE base

BuildParamsUsed(model, temperature, raw_v, raw_e) ==
    LET base == [k \in {"temperature"} |-> "False"]
    IN IF _is_gpt5(model)
       THEN LET p1 == IF raw_v \in allowed_v THEN Put(base, "verbosity", raw_v) ELSE base
            IN IF raw_e \in allowed_e THEN Put(p1, "reasoning_effort", raw_e) ELSE p1
       ELSE IF temperature # "None" THEN Put(base, "temperature", temperature) ELSE base

\* What the upstream API can answer to one responses.create call.
\*   ok:    a response object; output_text is the convenience field ("None"
\*          when absent), usage may be missing, id is the response id.
\*   bad:   BadRequestError; msg is the set of marker substrings str(e)
\*          contains.
\*   error: any other exception (API error, connection error, timeout).
Markers == {"Unsupported parameter", "is not supported", "temperature",
            "text", "verbosity", "reasoning", "effort"}

BadMessages == {
    {"Unsupported parameter", "temperature"},
    {"Unsupported parameter", "text", "verbosity"},
    {"is not supported", "reasoning", "effort"},
    {"Unsupported parameter", "temperature", "text", "reasoning"},
    {"Unsupported parameter"},
    {"temperature"} }

Usages == {
    [present |-> FALSE, input_tokens |-> 0, output_tokens |-> 0, reasoning_tokens |-> 0],
    [present |-> TRUE, input_tokens |-> 200000, output_tokens |-> 50000, reasoning_tokens |-> 7] }

OutputTexts == {"None", "", " ", "12:00 poem"}

\* A value that is a list or None.
NoList == [list |-> FALSE, items |-> <<>>]
List(items) == [list |-> TRUE, items |-> items]

OkResponses ==
    [kind : {"ok"}, output_text : OutputTexts, output : {NoList}, data : {NoList},
     usage : Usages, id : {"resp_1"}, msg : {{}}]
BadResponses ==
    [kind : {"bad"}, output_text : {"None"}, output : {NoList}, data : {NoList},
     usage : {CHOOSE u \in Usages : ~u.present}, id : {"None"}, msg : BadMessages]
ErrorResponses ==
    [kind : {"error"}, output_text : {"None"}, output : {NoList}, data : {NoList},
     usage : {CHOOSE u \in Usages : ~u.present}, id : {"None"}, msg : {{}}]
UpstreamResponses == OkResponses \cup BadResponses \cup ErrorResponses

\* The answers drawn for the calls made on behalf of generate_poem.
ServiceResponses ==
    {r \in UpstreamResponses :
        /\ r.kind = "ok" => r.output_text \in {"None", " ", "12:00 poem"}
        /\ r.kind = "bad" => r.msg \in {{"Unsupported parameter", "text", "verbosity"},
                                        {"Unsupported parameter"}}}

\* a strip() that strips nothing
Strip_nothing(t) == t

\* str.strip() on the texts of the model.
Strip(t) == IF t \in {"", " "} THEN "" ELSE IF t = " frag " THEN "frag" ELSE t

\* isinstance(v, str) and v.strip()
NonBlank(v) == v # "None" /\ Strip(v) # ""

\* The shapes below the convenience field.  A content block is a raw string
\* (kind "str"), an SDK object ("obj") or a dict ("dict") with a type and a
\* text; an output item is an SDK object or a dict (form) with a type, a
\* text, a summary that holds a text, and a content that is None or a list
\* of blocks.  "None" stands for None and for a missing attribute or key.

\* "\n".join(fragments)
RECURSIVE Join(_)
Join(fragments) ==
    IF Len(fragments) = 1 THEN fragments[1]
    ELSE fragments[1] \o "\n" \o Join(Tail(fragments))

\* What a scan gives back: the text found ("None": none) and the raw
\* strings it appended to fragments on the way.
Found(s) == [s |-> s, fragments |-> <<>>]

\* A scan followed by another: the first text found ends the scan (an
\* early return); otherwise the next scan runs and fragments holds the raw
\* strings of both.
OrElse(first, rest) ==
    IF first.s # "None" THEN first
    ELSE [s |-> rest.s, fragments |-> first.fragments \o rest.fragments]

\* lines 118-120: a raw string block is appended, stripped, to fragments
RawFragment(b) ==
    [s |-> "None",
     fragments |-> IF b.kind = "str" /\ NonBlank(b.text) THEN <<Strip(b.text)>> ELSE <<>>]

\* lines 83-121: the first block with a non-blank text; raw strings met
\* before it are appended to fragments.
RECURSIVE _scan_blocks(_)
_scan_blocks(blocks) ==
    IF blocks = <<>> THEN Found("None")
    ELSE IF Head(blocks).kind # "str" /\ NonBlank(Head(blocks).text)
    THEN Found(Head(blocks).text)
    ELSE OrElse(RawFragment(Head(blocks)), _scan_blocks(Tail(blocks)))

\* lines 139-153: the blocks of a reasoning item typed as output text
MessageBlocks(content) ==
    SelectSeq(content, LAMBDA b : /\ b.kind # "str"
                                  /\ b.type \in {"output_text", "text", "message"}
                                  /\ NonBlank(b.text))

\* lines 139-153: the text of the first such block
FirstMessageBlock(typed) ==
    IF typed # <<>> THEN Found(Head(typed).text) ELSE Found("None")

\* lines 222-227: the keys of a dict item, read after its content
DictKeys(item) ==
    IF item.form = "dict" /\ NonBlank(item.text) THEN Found(item.text) ELSE Found("None")

\* lines 123-229
_scan_item(item, allow_reasoning) ==
    IF item.type = "reasoning" /\ ~allow_reasoning
    THEN \* lines 130-166
         IF item.content.list /\ item.content.items # <<>>
         THEN OrElse(FirstMessageBlock(MessageBlocks(item.content.items)),
                     _scan_blocks(item.content.items))
         ELSE Found("None")
    \* lines 169-174: attributes of an SDK object
    ELSE IF item.form = "obj" /\ NonBlank(item.text) THEN Found(item.text)
    \* lines 177-187
    ELSE IF NonBlank(item.summary) THEN Found(item.summary)
    \* lines 209-219, then 222-227
    ELSE OrElse(IF item.content.list THEN _scan_blocks(item.content.items)
                ELSE Found("None"),
                DictKeys(item))

\* One `for it in ...` loop of lines 234-257.
RECURSIVE ScanPass(_, _)
ScanPass(items, allow_reasoning) ==
    IF items = <<>> THEN Found("None")
    ELSE OrElse(_scan_item(Head(items), allow_reasoning),
                ScanPass(Tail(items), allow_reasoning))

\* Both passes over one list (lines 232-244 for output, 247-257 for data).
ScanList(l) ==
    IF ~l.list \/ l.items = <<>> THEN Found("None")
    ELSE OrElse(ScanPass(l.items, FALSE), ScanPass(l.items, TRUE))

\* lines 260-263: what is returned once both lists are scanned
JoinOrEmpty(scan) ==
    IF scan.s # "None" THEN scan.s
    ELSE IF scan.fragments # <<>> THEN Join(scan.fragments)
    ELSE ""

\* lines 44-263
_extract_text(resp) ==
    IF NonBlank(resp.output_text) THEN resp.output_text
    ELSE JoinOrEmpty(OrElse(ScanList(resp.output), ScanList(resp.data)))

\* an except-branch that retries after any BadRequestError
StripDecision_anyRejection(msg, kwargs) ==
    IF "temperature" \in DOMAIN kwargs THEN "temperature"
    ELSE IF "text" \in DOMAIN kwargs THEN "text"
    ELSE IF "reasoning" \in DOMAIN kwargs THEN "reasoning"
    ELSE "raise"

\* The parameter the except-branch strips for a BadRequestError message,
\* "raise" when it re-raises.
StripDecision(msg, kwargs) ==
    IF "Unsupported parameter" \in msg \/ "is not supported" \in msg
    THEN IF "temperature" \in msg /\ "temperature" \in DOMAIN kwargs THEN "temperature"
         ELSE IF ("text" \in msg \/ "verbosity" \in msg) /\ "text" \in DOMAIN kwargs THEN "text"
         ELSE IF ("reasoning" \in msg \/ "effort" \in msg) /\ "reasoning" \in DOMAIN kwargs
              THEN "reasoning"
         ELSE "raise"
    ELSE "raise"

\* a strip of temperature that leaves the recorded value in place
ParamsAfterStrip_keepsTemperature(params_used, p) ==
    IF p = "temperature" THEN params_used
    ELSE IF p = "text" THEN Pop(params_used, "verbosity")
    ELSE Pop(params_used, "reasoning_effort")

\* params_used after the except-branch stripped p.
ParamsAfterStrip(params_used, p) ==
    IF p = "temperature" THEN Put(params_used, "temperature", "False")
    ELSE IF p = "text" THEN Pop(params_used, "verbosity")
    ELSE Pop(params_used, "reasoning_effort")

\* `text or ""`, line 474
OrEmpty(text) == IF text = "None" THEN "" ELSE text

LLMResult(inv, resp, t) ==
    [ text |-> OrEmpty(_extract_text(resp)),
      model |-> inv.model,
      response_id |-> resp.id,
      prompt_tokens |-> IF resp.usage.present THEN resp.usage.input_tokens ELSE 0,
      completion_tokens |-> IF resp.usage.present THEN resp.usage.output_tokens ELSE 0,
      reasoning_tokens |-> IF resp.usage.present THEN resp.usage.reasoning_tokens ELSE 0,
      latency_ms |-> t - inv.t0,
      retry_count |-> inv.retry_count,
      params_used |-> inv.params_used ]

NoResult ==
    [ text |-> "", model |-> "None", response_id |-> "None", prompt_tokens |-> 0,
      completion_tokens |-> 0, reasoning_tokens |-> 0, latency_ms |-> NoneInt,
      retry_count |-> 0, params_used |-> NoParams ]

\* One invocation of OpenAIAdapter.generate.  pc is where the coroutine
\* stands: "call1"/"call2" awaiting the first/second responses.create,
\* "returned" with res, or "raised".  sent is the sequence of kwargs passed
\* to responses.create so far; errs holds str(e) of the BadRequestError the
\* first call ended with, if it ended with one.
IdleInvocation ==
    [ pc |-> "idle", model |-> "None", kwargs |-> NoParams, params_used |-> NoParams,
      retry_count |-> 0, sent |-> <<>>, errs |-> <<>>, t0 |-> 0, res |-> NoResult ]

\* generate up to its first await.
GenerateStart(model, temperature, raw_v, raw_e, t) ==
    LET kw == BuildKwargs(model, temperature, raw_v, raw_e)
    IN [ pc |-> "call1", model |-> model, kwargs |-> kw,
         params_used |-> BuildParamsUsed(model, temperature, raw_v, raw_e),
         retry_count |-> 0, sent |-> <<kw>>, errs |-> <<>>, t0 |-> t, res |-> NoResult ]

\* a retry loop that strips again after a second rejection
GenerateResume_retriesAgain(inv, resp, t) ==
    IF resp.kind = "ok"
    THEN [inv EXCEPT !.pc = "returned", !.res = LLMResult(inv, resp, t)]
    ELSE IF resp.kind = "bad" /\ StripDecision(resp.msg, inv.kwargs) # "raise"
    THEN LET p == StripDecision(resp.msg, inv.kwargs)
             kw == Pop(inv.kwargs, p)
         IN [inv EXCEPT !.pc = "call2", !.kwargs = kw,
                        !.params_used = ParamsAfterStrip(inv.params_used, p),
                        !.retry_count = 1, !.sent = Append(inv.sent, kw),
                        !.errs = <<resp.msg>>]
    ELSE [inv EXCEPT !.pc = "raised",
                     !.errs = IF resp.kind = "bad" /\ inv.pc = "call1"
                              THEN <<resp.msg>> ELSE inv.errs]

\* generate from the completion of an awaited responses.create to its next
\* await, its return or its raise.
GenerateResume(inv, resp, t) ==
    IF resp.kind = "ok"
    THEN [inv EXCEPT !.pc = "returned", !.res = LLMResult(inv, resp, t)]
    ELSE IF resp.kind = "bad" /\ inv.pc = "call1"
              /\ StripDecision(resp.msg, inv.kwargs) # "raise"
    THEN LET p == StripDecision(resp.msg, inv.kwargs)
             kw == Pop(inv.kwargs, p)
         IN [inv EXCEPT !.pc = "call2", !.kwargs = kw,
                        !.params_used = ParamsAfterStrip(inv.params_used, p),
                        !.retry_count = 1, !.sent = Append(inv.sent, kw),
                        !.errs = <<resp.msg>>]
    ELSE [inv EXCEPT !.pc = "raised",
                     !.errs = IF resp.kind = "bad" /\ inv.pc = "call1"
                              THEN <<resp.msg>> ELSE inv.errs]

\* ------------------------------------------------------------------ state
VARIABLES
    cfg,          \* Settings: EXPERIMENT_MODE and SHADOW_TARGETS (frozen)
    now,          \* wall clock, in minutes
    reqs,         \* the generate_poem calls made so far, in arrival order
    cache,        \* cache._cache: key -> [value, expires]
    events,       \* rows of the events table (a bag: the table is unordered)
    shadow,       \* background shadow tasks added by generate_poem
    cacheWrites,  \* history: the cache.set calls made, in order
    call          \* one direct invocation of OpenAIAdapter.generate

\* The rate limiter (services/rate_limit.py) of one backend process.
VARIABLES
    rlCfg,        \* REDIS_URL set or not, and the *_RL_PER_MIN ceilings (frozen)
    rlStore,      \* the shared counter store: key -> [val, ttl]
    _mem_user,    \* in-process counters: identity -> <<count, bucket_ts>>
    _mem_ip,
    _mem_token,
    rlHist,       \* history: <<kind, identity, bucket>> -> results returned, in order
    rlLast        \* history: the last allow_* call made

rateVars == <<rlCfg, rlStore, _mem_user, _mem_ip, _mem_token, rlHist, rlLast>>

\* The async cache and the keyed lock (services/cache.py) of one process.
VARIABLES
    lkCfg,            \* REDIS_URL set or not (frozen)
    _redis,           \* the cached client: "None" or "client"
    _redis_disabled,  \* the downgrade flag
    _locks,           \* key -> asyncio.Lock: [locked, waiters, by]
    redisLocks,       \* the shared store's locks: key -> [owner, expires, orphan]
    redisKV,          \* the shared store's cache entries: key -> value
    tasks,            \* the asyncio tasks using alock
    lkLast            \* history: the last step of a cache or lock operation

lockVars == <<lkCfg, _redis, _redis_disabled, _locks, redisLocks, redisKV, tasks, lkLast>>

\* Two processes of the service behind one load balancer.
VARIABLES
    focus,        \* the process whose module globals the variable cache shows
    procOf,       \* the process that handles the i-th request (frozen)
    peerCache     \* cache._cache of the other process

procVars == <<focus, procOf, peerCache>>

\* The library functions applied on their own: poem_service.choose_model and
\* daypart_for, registry._extract_text, micro_directives.pick.
VARIABLES
    fnArg,        \* the function applied (fn) and its arguments
    fnRet,        \* what the applications on fnArg returned, in order
    _recent_ids   \* micro_directives._recent_ids, oldest first

libVars == <<fnArg, fnRet, _recent_ids>>

vars == <<cfg, now, reqs, cache, events, shadow, cacheWrites, call, rateVars, lockVars,
          procVars, libVars>>

Procs == {"p1", "p2"}

\* A single process: every request is handled by p1.
OneProcess ==
    /\ focus = "p1"
    /\ procOf = <<>>
    /\ peerCache = <<>>

\* No library function applied on its own, micro_directives just imported.
LibIdle ==
    /\ fnArg = [fn |-> "None"]
    /\ fnRet = <<>>
    /\ _recent_ids = <<>>

\* The tasks that take the keyed lock, and the keys they use.
Tasks == {"t1", "t2"}
LockKeys == {"k1", "k2"}

\* A task outside any alock block.  mgr is the context manager it uses
\* ("local" for _LocalAsyncLock, "redis" for _RedisOrLocalLock), redis_lock
\* its _redis_lock ("None", "owned" once acquire returned True, "unowned"
\* once it returned False), local_lock its _local_lock, since the time it
\* started to wait.
IdleTask ==
    [ pc |-> "idle", key |-> "None", timeout |-> 0, mgr |-> "None", redis_lock |-> "None",
      local_lock |-> "None", since |-> 0 ]

\* No cache or lock operation yet.
NoContact == [op |-> "None", shared |-> FALSE, after |-> FALSE]

\* services/cache.py right after import; url tells whether REDIS_URL is set.
CacheImported(url) ==
    /\ lkCfg = [REDIS_URL |-> url]
    /\ _redis = "None"
    /\ _redis_disabled = FALSE
    /\ _locks = <<>>
    /\ redisLocks = <<>>
    /\ redisKV = <<>>
    /\ tasks = [t \in Tasks |-> IdleTask]
    /\ lkLast = NoContact

\* No allow_* call made yet.
NoCall ==
    [n |-> 0, kind |-> "None", id |-> "None", result |-> "None", raised |-> FALSE,
     stable |-> TRUE]

\* The rate limiter module right after import, under configuration c.
RateImported(c) ==
    /\ rlCfg = c
    /\ rlStore = <<>>
    /\ _mem_user = <<>>
    /\ _mem_ip = <<>>
    /\ _mem_token = <<>>
    /\ rlHist = <<>>
    /\ rlLast = NoCall

\* The defaults of lines 11-13, without REDIS_URL.
DefaultRateCfg ==
    [REDIS_URL |-> FALSE, USER_RL_PER_MIN |-> 6, IP_RL_PER_MIN |-> 60, TOKEN_RL_PER_MIN |-> 60]

\* ----------------------------------------------------------------- pricing
\* PRICE_PROMPT_<MODEL> / PRICE_COMPLETION_<MODEL>, USD per million tokens;
\* a model without price entries costs 0.0.
get_prices(model) ==
    IF model = PRIMARY_MODEL THEN <<2, 2>>
    ELSE IF model = SECONDARY_MODEL THEN <<1, 1>>
    ELSE <<0, 0>>

\* tokens / 1e6 * USD-per-million, in micro-dollars
cost_usd(model, prompt_tokens, completion_tokens) ==
    prompt_tokens * get_prices(model)[1] + completion_tokens * get_prices(model)[2]

\* ------------------------------------------------------------- event store
DayOf(minute) == minute \div MinutesPerDay

RECURSIVE SumCost(_, _)
SumCost(rows, day) ==
    IF rows = EmptyBag THEN 0
    ELSE LET row == CHOOSE x \in BagToSet(rows) : TRUE
         IN (IF DayOf(row.ts) = day THEN row.cost_usd ELSE 0)
            + SumCost(rows (-) SetToBag({row}), day)

\* INSERT INTO events
write_event(rows, row) == rows (+) SetToBag({row})

\* SELECT COALESCE(SUM(cost_usd),0) FROM events WHERE ts in today (UTC)
today_cost_sum(rows, t) == SumCost(rows, DayOf(t))

\* The columns of a written row the model keeps.
EventRow(payload, ts) ==
    [ ts |-> ts, request_id |-> payload.request_id, status |-> payload.status,
      model |-> payload.model, cost_usd |-> payload.cost_usd,
      cached |-> payload.cached ]

\* ------------------------------------------------------------------- cache
\* a key that leaves the tone out
CacheKey_noTone(minute, tz, tone) == <<minute, tz, "", PRIMARY_MODEL>>

\* line 133
CacheKey(minute, tz, tone) == <<minute, tz, tone, PRIMARY_MODEL>>

\* TTLCache.__getitem__: an entry is gone once its expiry time is reached.
CacheLive(c, key, t) == key \in DOMAIN c /\ t < c[key].expires

\* TTLCache.__setitem__: drop the expired entries, then store with a new
\* expiry time.
CacheSet(c, key, value, t) ==
    LET live == {k \in DOMAIN c : t < c[k].expires}
    IN [k \in live \cup {key} |->
          IF k = key THEN [value |-> value, expires |-> t + CacheTTL] ELSE c[k]]

\* ------------------------------------------------------------ poem service
BudgetPoem == "budget keeps the time"
FallbackPoem == "the muse of code is lost"

\* int(req_id[-4:], 16) for the request ids of the model
HexTails == {5, 50}

Clamp(x) == IF x < 0 THEN 0 ELSE IF x > 100 THEN 100 ELSE x

\* choose_model with <= for <
choose_model_inclusive(c, hex4) ==
    IF c.EXPERIMENT_MODE = "ab" /\ (hex4 % 100) <= Clamp(c.AB_SPLIT)
    THEN SECONDARY_MODEL ELSE PRIMARY_MODEL

choose_model(c, hex4) ==
    IF c.EXPERIMENT_MODE = "single" THEN PRIMARY_MODEL
    ELSE IF c.EXPERIMENT_MODE = "ab"
    THEN (IF (hex4 % 100) < Clamp(c.AB_SPLIT) THEN SECONDARY_MODEL ELSE PRIMARY_MODEL)
    ELSE PRIMARY_MODEL

NoPayload ==
    [ poem |-> "", model |-> "None", generated_at |-> NoneInt, time_used |-> NoneInt,
      tone |-> "None", cached |-> FALSE, status |-> "none", prompt_tokens |-> 0,
      completion_tokens |-> 0, reasoning_tokens |-> 0, cost_usd |-> 0,
      request_id |-> 0, timezone |-> "None", retry_count |-> 0,
      params_used |-> NoParams, response_id |-> "None", latency_ms |-> NoneInt ]

\* a fallback that reports the primary model instead of None
ZeroFallback_namesModel(poem, rid, tone, tz, t_used, t) ==
    [ poem |-> poem, model |-> PRIMARY_MODEL, generated_at |-> t, time_used |-> t_used,
      tone |-> tone, cached |-> FALSE, status |-> "fallback", prompt_tokens |-> 0,
      completion_tokens |-> 0, reasoning_tokens |-> 0, cost_usd |-> 0,
      request_id |-> rid, timezone |-> tz, retry_count |-> 0,
      params_used |-> NoParams, response_id |-> "None", latency_ms |-> NoneInt ]

\* lines 108-129 and 243-264: the payload built without an adapter result
ZeroFallback(poem, rid, tone, tz, t_used, t) ==
    [ poem |-> poem, model |-> "None", generated_at |-> t, time_used |-> t_used,
      tone |-> tone, cached |-> FALSE, status |-> "fallback", prompt_tokens |-> 0,
      completion_tokens |-> 0, reasoning_tokens |-> 0, cost_usd |-> 0,
      request_id |-> rid, timezone |-> tz, retry_count |-> 0,
      params_used |-> NoParams, response_id |-> "None", latency_ms |-> NoneInt ]

\* an empty-text fallback that still bills the tokens
EmptyFallback_charges(res, rid, tone, tz, t_used, t) ==
    [ poem |-> FallbackPoem, model |-> res.model, generated_at |-> t,
      time_used |-> t_used, tone |-> tone, cached |-> FALSE, status |-> "fallback",
      prompt_tokens |-> res.prompt_tokens, completion_tokens |-> res.completion_tokens,
      reasoning_tokens |-> res.reasoning_tokens,
      cost_usd |-> cost_usd(res.model, res.prompt_tokens, res.completion_tokens),
      request_id |-> rid, timezone |-> tz, retry_count |-> res.retry_count,
      params_used |-> res.params_used, response_id |-> res.response_id,
      latency_ms |-> res.latency_ms ]

\* an empty-text fallback that zeroes the telemetry like the error path
EmptyFallback_zeroed(res, rid, tone, tz, t_used, t) ==
    [ poem |-> FallbackPoem, model |-> res.model, generated_at |-> t,
      time_used |-> t_used, tone |-> tone, cached |-> FALSE, status |-> "fallback",
      prompt_tokens |-> 0, completion_tokens |-> 0, reasoning_tokens |-> 0,
      cost_usd |-> 0, request_id |-> rid, timezone |-> tz, retry_count |-> 0,
      params_used |-> res.params_used, response_id |-> "None",
      latency_ms |-> NoneInt ]

\* lines 147-168: the adapter returned, but with blank text
EmptyFallback(res, rid, tone, tz, t_used, t) ==
    [ poem |-> FallbackPoem, model |-> res.model, generated_at |-> t,
      time_used |-> t_used, tone |-> tone, cached |-> FALSE, status |-> "fallback",
      prompt_tokens |-> res.prompt_tokens, completion_tokens |-> res.completion_tokens,
      reasoning_tokens |-> res.reasoning_tokens, cost_usd |-> 0,
      request_id |-> rid, timezone |-> tz, retry_count |-> res.retry_count,
      params_used |-> res.params_used, response_id |-> res.response_id,
      latency_ms |-> res.latency_ms ]

\* lines 173-198
OkPayload(res, rid, tone, tz, t_used, t) ==
    [ poem |-> res.text, model |-> res.model, generated_at |-> t,
      time_used |-> t_used, tone |-> tone, cached |-> FALSE, status |-> "ok",
      prompt_tokens |-> res.prompt_tokens, completion_tokens |-> res.completion_tokens,
      reasoning_tokens |-> res.reasoning_tokens,
      cost_usd |-> cost_usd(res.model, res.prompt_tokens, res.completion_tokens),
      request_id |-> rid, timezone |-> tz, retry_count |-> res.retry_count,
      params_used |-> res.params_used, response_id |-> res.response_id,
      latency_ms |-> res.latency_ms ]

\* a hit returned as stored
CachedPayload_unmarked(entry) == entry

\* line 136
CachedPayload(entry) == [entry EXCEPT !.cached = TRUE]

\* a write that does not look at the model used
ShouldCache_anyModel(res, payload) == payload.status = "ok"

\* line 199: which results are written to the cache
ShouldCache(res, payload) == res.model = PRIMARY_MODEL /\ payload.status = "ok"

\* A request record: the arguments, the context derived at entry (minute is
\* the local minute), the adapter invocation it awaits and its result.
\* path names the return statement taken.  History kept with the request:
\* prior is the set of requests that had returned when this one entered,
\* chk the number of cache.set calls made before it looked the cache up
\* (NoneInt: no lookup), calls the number of responses.create calls made
\* for it, outcome how adapter.generate ended ("returned", "raised" or
\* "none") and res what it returned; inv is dropped when it ends; shadowed
\* lists the shadow calls made for it that ended, with how they ended.
NewRequest(tone, tz, force_new, t, prior) ==
    [ tone |-> tone, tz |-> tz, force_new |-> force_new, minute |-> t,
      pc |-> "entry", path |-> "none", prior |-> prior, chk |-> NoneInt,
      inv |-> IdleInvocation, calls |-> 0, outcome |-> "none", res |-> NoResult,
      result |-> NoPayload, shadowed |-> <<>> ]

Returned(rs) == {i \in 1..Len(rs) : rs[i].pc = "done"}

\* the gate with a strict comparison
OverBudget_strict(sum) == sum > DAILY_COST_LIMIT_USD

\* line 106
OverBudget(sum) == sum >= DAILY_COST_LIMIT_USD

\* a lookup that ignores force_new
MustGenerate_ignoresForce(force_new, c, key, t) == ~CacheLive(c, key, t)

\* lines 134-136: the request goes on to the model unless it is not forced
\* and the cache holds a live entry for its key
MustGenerate(force_new, c, key, t) == force_new \/ ~CacheLive(c, key, t)

KeyOf(r) == CacheKey(r.minute, r.tz, r.tone)

Configs ==
    { [EXPERIMENT_MODE |-> "single", AB_SPLIT |-> AB_SPLIT, SHADOW_TARGETS |-> <<>>],
      [EXPERIMENT_MODE |-> "ab", AB_SPLIT |-> AB_SPLIT, SHADOW_TARGETS |-> <<>>],
      [EXPERIMENT_MODE |-> "shadow", AB_SPLIT |-> AB_SPLIT, SHADOW_TARGETS |-> <<>>],
      [EXPERIMENT_MODE |-> "shadow", AB_SPLIT |-> AB_SPLIT,
        SHADOW_TARGETS |-> <<SECONDARY_MODEL>>] }

Init ==
    /\ cfg \in Configs
    /\ now = 0
    /\ reqs = <<>>
    /\ cache = <<>>
    /\ events = EmptyBag
    /\ shadow = <<>>
    /\ cacheWrites = <<>>
    /\ call = IdleInvocation
    /\ RateImported(DefaultRateCfg)
    /\ CacheImported(FALSE)
    /\ OneProcess
    /\ LibIdle

Tick ==
    /\ UNCHANGED <<rateVars, lockVars, procVars, libVars>>
    /\ now < MaxTime
    /\ now' = now + 1
    /\ UNCHANGED <<cfg, reqs, cache, events, shadow, cacheWrites, call>>

\* generate_poem, lines 98-131: the budget gate short-circuits.
RequestOverBudget(tone, tz, force_new) ==
    /\ UNCHANGED <<rateVars, lockVars, procVars, libVars>>
    /\ Len(reqs) < MaxReq
    /\ OverBudget(today_cost_sum(events, now))
    /\ LET rid == Len(reqs) + 1
           payload == ZeroFallback(BudgetPoem, rid, tone, tz, now, now)
       IN /\ reqs' = Append(reqs, [NewRequest(tone, tz, force_new, now, Returned(reqs)) EXCEPT
                                     !.pc = "done", !.path = "budget", !.result = payload])
          /\ events' = write_event(events, EventRow(payload, now))
    /\ UNCHANGED <<cfg, now, cache, shadow, cacheWrites, call>>

\* a hit that is logged like a generated poem
RequestCacheHit_logsEvent(tone, tz, force_new) ==
    /\ UNCHANGED <<rateVars, lockVars, procVars, libVars>>
    /\ Len(reqs) < MaxReq
    /\ ~OverBudget(today_cost_sum(events, now))
    /\ ~MustGenerate(force_new, cache, CacheKey(now, tz, tone), now)
    /\ reqs' = Append(reqs, [NewRequest(tone, tz, force_new, now, Returned(reqs)) EXCEPT
                               !.pc = "done", !.path = "cached", !.chk = Len(cacheWrites),
                               !.result = CachedPayload(cache[CacheKey(now, tz, tone)].value)])
    /\ events' = write_event(events,
                             EventRow(CachedPayload(cache[CacheKey(now, tz, tone)].value), now))
    /\ UNCHANGED <<cfg, now, cache, shadow, cacheWrites, call>>

\* generate_poem, lines 98-136: under budget, not forced, and the cache
\* holds a live entry for the key.
RequestCacheHit(tone, tz, force_new) ==
    /\ UNCHANGED <<rateVars, lockVars, procVars, libVars>>
    /\ Len(reqs) < MaxReq
    /\ ~OverBudget(today_cost_sum(events, now))
    /\ ~MustGenerate(force_new, cache, CacheKey(now, tz, tone), now)
    /\ reqs' = Append(reqs, [NewRequest(tone, tz, force_new, now, Returned(reqs)) EXCEPT
                               !.pc = "done", !.path = "cached", !.chk = Len(cacheWrites),
                               !.result = CachedPayload(cache[CacheKey(now, tz, tone)].value)])
    /\ UNCHANGED <<cfg, now, cache, events, shadow, cacheWrites, call>>

\* generate_poem, lines 98-144, into adapter.generate up to its first
\* await: under budget, and forced or a cache miss.
RequestCallModel(tone, tz, force_new, hex4) ==
    /\ UNCHANGED <<rateVars, lockVars, procVars, libVars>>
    /\ Len(reqs) < MaxReq
    /\ ~OverBudget(today_cost_sum(events, now))
    /\ MustGenerate(force_new, cache, CacheKey(now, tz, tone), now)
    /\ reqs' = Append(reqs, [NewRequest(tone, tz, force_new, now, Returned(reqs)) EXCEPT
                               !.pc = "adapter",
                               !.chk = IF force_new THEN NoneInt ELSE Len(cacheWrites),
                               !.inv = GenerateStart(choose_model(cfg, hex4), "None",
                                                     "low", "low", now)])
    /\ UNCHANGED <<cfg, now, cache, events, shadow, cacheWrites, call>>

\* A background shadow task (lines 205-240): the models still to call and
\* the adapter invocation in flight.
ShadowTask(rid, models) == [request_id |-> rid, models |-> models, inv |-> IdleInvocation]

\* lines 204, 240
ShadowTasksFor(c, rid) ==
    IF c.EXPERIMENT_MODE = "shadow" /\ c.SHADOW_TARGETS # <<>>
    THEN <<ShadowTask(rid, c.SHADOW_TARGETS)>> ELSE <<>>

\* The first responses.create of request i fails with a BadRequestError
\* that names a strippable parameter: generate strips it and awaits the
\* retry.
UpstreamRetry(i, resp) ==
    /\ UNCHANGED <<rateVars, lockVars, procVars, libVars>>
    /\ i \in 1..Len(reqs)
    /\ reqs[i].pc = "adapter"
    /\ GenerateResume(reqs[i].inv, resp, now).pc = "call2"
    /\ reqs' = [reqs EXCEPT ![i].inv = GenerateResume(reqs[i].inv, resp, now)]
    /\ UNCHANGED <<cfg, now, cache, events, shadow, cacheWrites, call>>

\* generate returns text: lines 173-201 and 204-241.
UpstreamOk(i, resp) ==
    /\ UNCHANGED <<rateVars, lockVars, procVars, libVars>>
    /\ i \in 1..Len(reqs)
    /\ reqs[i].pc = "adapter"
    /\ LET inv2 == GenerateResume(reqs[i].inv, resp, now)
           r == reqs[i]
           payload == OkPayload(inv2.res, i, r.tone, r.tz, r.minute, now)
       IN /\ inv2.pc = "returned"
          /\ Strip(inv2.res.text) # ""
          /\ reqs' = [reqs EXCEPT ![i].inv = IdleInvocation, ![i].calls = Len(inv2.sent),
                                  ![i].outcome = "returned", ![i].res = inv2.res,
                                  ![i].pc = "done", ![i].path = "ok",
                                  ![i].result = payload]
          /\ IF ShouldCache(inv2.res, payload)
             THEN /\ cache' = CacheSet(cache, KeyOf(r), payload, now)
                  /\ cacheWrites' = Append(cacheWrites, [key |-> KeyOf(r), request_id |-> i])
             ELSE UNCHANGED <<cache, cacheWrites>>
          /\ events' = write_event(events, EventRow(payload, now))
          /\ shadow' = shadow \o ShadowTasksFor(cfg, i)
    /\ UNCHANGED <<cfg, now, call>>

\* generate returns blank text: lines 146-171.
UpstreamEmpty(i, resp) ==
    /\ UNCHANGED <<rateVars, lockVars, procVars, libVars>>
    /\ i \in 1..Len(reqs)
    /\ reqs[i].pc = "adapter"
    /\ LET inv2 == GenerateResume(reqs[i].inv, resp, now)
           r == reqs[i]
           payload == EmptyFallback(inv2.res, i, r.tone, r.tz, r.minute, now)
       IN /\ inv2.pc = "returned"
          /\ Strip(inv2.res.text) = ""
          /\ reqs' = [reqs EXCEPT ![i].inv = IdleInvocation, ![i].calls = Len(inv2.sent),
                                  ![i].outcome = "returned", ![i].res = inv2.res,
                                  ![i].pc = "done", ![i].path = "empty",
                                  ![i].result = payload]
          /\ events' = write_event(events, EventRow(payload, now))
    /\ UNCHANGED <<cfg, now, cache, shadow, cacheWrites, call>>

\* generate raises: lines 242-266.
UpstreamFail(i, resp) ==
    /\ UNCHANGED <<rateVars, lockVars, procVars, libVars>>
    /\ i \in 1..Len(reqs)
    /\ reqs[i].pc = "adapter"
    /\ LET inv2 == GenerateResume(reqs[i].inv, resp, now)
           r == reqs[i]
           payload == ZeroFallback(FallbackPoem, i, r.tone, r.tz, r.minute, now)
       IN /\ inv2.pc = "raised"
          /\ reqs' = [reqs EXCEPT ![i].inv = IdleInvocation, ![i].calls = Len(inv2.sent),
                                  ![i].outcome = "raised", ![i].res = inv2.res,
                                  ![i].pc = "done", ![i].path = "error",
                                  ![i].result = payload]
          /\ events' = write_event(events, EventRow(payload, now))
    /\ UNCHANGED <<cfg, now, cache, shadow, cacheWrites, call>>

RemoveAt(q, j) == SubSeq(q, 1, j - 1) \o SubSeq(q, j + 1, Len(q))

\* run() of a shadow task calls the next shadow model (line 210).
ShadowCall(j) ==
    /\ UNCHANGED <<rateVars, lockVars, procVars, libVars>>
    /\ j \in 1..Len(shadow)
    /\ shadow[j].inv.pc = "idle"
    /\ shadow[j].models # <<>>
    /\ shadow' = [shadow EXCEPT ![j].inv = GenerateStart(Head(shadow[j].models), "None",
                                                         "low", "low", now)]
    /\ UNCHANGED <<cfg, now, reqs, cache, events, cacheWrites, call>>

\* run() without the try/except inside its loop: the first failure ends it
ShadowRespond_stopsOnError(j, resp) ==
    /\ UNCHANGED <<rateVars, lockVars, procVars, libVars>>
    /\ j \in 1..Len(shadow)
    /\ shadow[j].inv.pc \in {"call1", "call2"}
    /\ LET inv2 == GenerateResume(shadow[j].inv, resp, now)
           sres == inv2.res
       IN IF inv2.pc = "call2"
          THEN /\ shadow' = [shadow EXCEPT ![j].inv = inv2]
               /\ UNCHANGED <<events, reqs>>
          ELSE /\ shadow' = IF Tail(shadow[j].models) = <<>> \/ inv2.pc = "raised"
                            THEN RemoveAt(shadow, j)
                            ELSE [shadow EXCEPT ![j].inv = IdleInvocation,
                                                ![j].models = Tail(shadow[j].models)]
               /\ reqs' = [reqs EXCEPT ![shadow[j].request_id].shadowed =
                              Append(@, [model |-> Head(shadow[j].models),
                                         outcome |-> inv2.pc])]
               /\ IF inv2.pc = "returned"
                  THEN events' = write_event(events,
                          [ ts |-> now, request_id |-> shadow[j].request_id,
                            status |-> "shadow", model |-> sres.model,
                            cost_usd |-> cost_usd(sres.model, sres.prompt_tokens,
                                                  sres.completion_tokens),
                            cached |-> FALSE ])
                  ELSE UNCHANGED events
    /\ UNCHANGED <<cfg, now, cache, cacheWrites, call>>

\* An upstream answer to a shadow call: a retry, a logged "shadow" event
\* (lines 211-232), or a swallowed exception (lines 233-234).
ShadowRespond(j, resp) ==
    /\ UNCHANGED <<rateVars, lockVars, procVars, libVars>>
    /\ j \in 1..Len(shadow)
    /\ shadow[j].inv.pc \in {"call1", "call2"}
    /\ LET inv2 == GenerateResume(shadow[j].inv, resp, now)
           sres == inv2.res
       IN IF inv2.pc = "call2"
          THEN /\ shadow' = [shadow EXCEPT ![j].inv = inv2]
               /\ UNCHANGED <<events, reqs>>
          ELSE /\ shadow' = IF Tail(shadow[j].models) = <<>>
                            THEN RemoveAt(shadow, j)
                            ELSE [shadow EXCEPT ![j].inv = IdleInvocation,
                                                ![j].models = Tail(shadow[j].models)]
               /\ reqs' = [reqs EXCEPT ![shadow[j].request_id].shadowed =
                              Append(@, [model |-> Head(shadow[j].models),
                                         outcome |-> inv2.pc])]
               /\ IF inv2.pc = "returned"
                  THEN events' = write_event(events,
                          [ ts |-> now, request_id |-> shadow[j].request_id,
                            status |-> "shadow", model |-> sres.model,
                            cost_usd |-> cost_usd(sres.model, sres.prompt_tokens,
                                                  sres.completion_tokens),
                            cached |-> FALSE ])
                  ELSE UNCHANGED events
    /\ UNCHANGED <<cfg, now, cache, cacheWrites, call>>

Next ==
    \/ Tick
    \/ \E tone \in Tones, tz \in Timezones, force_new \in BOOLEAN :
          RequestOverBudget(tone, tz, force_new)
    \/ \E tone \in Tones, tz \in Timezones, force_new \in BOOLEAN :
          RequestCacheHit(tone, tz, force_new)
    \/ \E tone \in Tones, tz \in Timezones, force_new \in BOOLEAN, hex4 \in HexTails :
          RequestCallModel(tone, tz, force_new, hex4)
    \/ \E i \in 1..Len(reqs), resp \in ServiceResponses : UpstreamRetry(i, resp)
    \/ \E i \in 1..Len(reqs), resp \in ServiceResponses : UpstreamOk(i, resp)
    \/ \E i \in 1..Len(reqs), resp \in ServiceResponses : UpstreamEmpty(i, resp)
    \/ \E i \in 1..Len(reqs), resp \in ServiceResponses : UpstreamFail(i, resp)
    \/ \E j \in 1..Len(shadow) : ShadowCall(j)
    \/ \E j \in 1..Len(shadow), resp \in ServiceResponses : ShadowRespond(j, resp)

Spec == Init /\ [][Next]_vars

\* ------------------------------------------- the adapter called on its own
InitAdapter ==
    /\ cfg = [EXPERIMENT_MODE |-> "single", AB_SPLIT |-> AB_SPLIT, SHADOW_TARGETS |-> <<>>]
    /\ now = 0
    /\ reqs = <<>>
    /\ cache = <<>>
    /\ events = EmptyBag
    /\ shadow = <<>>
    /\ cacheWrites = <<>>
    /\ call = IdleInvocation
    /\ RateImported(DefaultRateCfg)
    /\ CacheImported(FALSE)
    /\ OneProcess
    /\ LibIdle

\* await adapter.generate(model, prompt, max_tokens, temperature), up to
\* the first responses.create
AdapterGenerate(model, temperature, raw_v, raw_e) ==
    /\ UNCHANGED <<rateVars, lockVars, procVars, libVars>>
    /\ call.pc = "idle"
    /\ call' = GenerateStart(model, temperature, raw_v, raw_e, now)
    /\ UNCHANGED <<cfg, now, reqs, cache, events, shadow, cacheWrites>>

\* the awaited responses.create completes
AdapterRespond(resp) ==
    /\ UNCHANGED <<rateVars, lockVars, procVars, libVars>>
    /\ call.pc \in {"call1", "call2"}
    /\ call' = GenerateResume(call, resp, now)
    /\ UNCHANGED <<cfg, now, reqs, cache, events, shadow, cacheWrites>>

NextAdapter ==
    \/ Tick
    \/ \E model \in AdapterModels, temperature \in Temperatures,
          raw_v \in EnvVerbosity, raw_e \in EnvEffort :
          AdapterGenerate(model, temperature, raw_v, raw_e)
    \/ \E resp \in UpstreamResponses : AdapterRespond(resp)

SpecAdapter == InitAdapter /\ [][NextAdapter]_vars

\* ------------------------------------------------------- the rate limiter
MaxRateCalls == 4

\* Identities handed to allow_*: None, the empty string, two real ones.
Identities == {"None", "", "a", "b"}
\* a test for None that lets the empty string through
Missing_noneOnly(id) == id = "None"

\* not user_id / not ip / not token
Missing(id) == id \in {"None", ""}

\* Values of USER_RL_PER_MIN / IP_RL_PER_MIN / MOBILE_RL_PER_MIN tried.
CeilingsTried == {0, 2}
RateConfigs ==
    [REDIS_URL : BOOLEAN, USER_RL_PER_MIN : CeilingsTried, IP_RL_PER_MIN : {2},
     TOKEN_RL_PER_MIN : CeilingsTried]

\* time.time() in whole minutes; the process never runs at the epoch.
Epoch == 1
time_time(t) == t + Epoch

\* _minute_bucket(ts): (ts or time.time()) // 60, with 0 for a missing ts.
_minute_bucket(ts, t) == IF ts = 0 THEN time_time(t) ELSE ts

Max(a, b) == IF a >= b THEN a ELSE b

\* f"pv:rl:{kind}:{id}:{bucket}"
RateKey(kind, id, bucket) == <<kind, id, bucket>>

\* The shared store: INCR and EXPIRE; a key whose ttl has passed is gone.
RL_EXPIRE == 2
StoreLive(store, key, t) ==
    key \in DOMAIN store /\ (store[key].ttl = NoneInt \/ time_time(t) < store[key].ttl)
Incr(store, key, t) ==
    IF StoreLive(store, key, t)
    THEN [store EXCEPT ![key].val = @ + 1]
    ELSE Put(store, key, [val |-> 1, ttl |-> NoneInt])
Expire(store, key, t) == [store EXCEPT ![key].ttl = time_time(t) + RL_EXPIRE]

\* How the calls to the shared store of one allow_* call end:
\*   ok             both succeed
\*   incr_raises    incr raises, the counter untouched
\*   incr_lost      incr is applied by the store but raises in the client
\*   expire_raises  incr returns 1 and expire raises
\*   local          no shared store is configured
StoreOutcomes == {"ok", "incr_raises", "incr_lost", "expire_raises", "local"}

\* Lines 53-60 / 84-91: the in-process counter after one more call.
MemEntry(mem, id, t) ==
    LET cur == IF id \in DOMAIN mem THEN mem[id] ELSE <<0, time_time(t)>>
        reset == _minute_bucket(cur[2], t) # _minute_bucket(time_time(t), t)
    IN <<(IF reset THEN 0 ELSE cur[1]) + 1, IF reset THEN time_time(t) ELSE cur[2]>>

\* an off-by-one comparison with the ceiling
WithinLimit_strict(count, limit) == count < limit

\* return val <= limit / return count <= limit
WithinLimit(count, limit) == count <= limit

PyBool(b) == IF b THEN "True" ELSE "False"

\* The outcomes the call on key can have in the current backend state.
OutcomePossible(outcome, c, store, key, t) ==
    IF ~c.REDIS_URL THEN outcome = "local"
    ELSE \/ outcome \in {"ok", "incr_raises", "incr_lost"}
         \/ outcome = "expire_raises" /\ Incr(store, key, t)[key].val = 1

\* allow_user / allow_token past the missing-identity test (lines 41-60,
\* 73-91): the new store, the new in-process counters, the value returned,
\* and whether the shared store raised.
Counted(kind, id, ceiling, store, mem, outcome, t) ==
    LET limit == Max(1, ceiling)
        key == RateKey(kind, id, _minute_bucket(0, t))
        s1 == Incr(store, key, t)
        val == s1[key].val
        entry == MemEntry(mem, id, t)
        viaMem(st) == [store |-> st, mem |-> Put(mem, id, entry),
                       result |-> PyBool(WithinLimit(entry[1], limit)),
                       raised |-> outcome # "local"]
    IN IF outcome = "ok"
       THEN [store |-> IF val = 1 THEN Expire(s1, key, t) ELSE s1, mem |-> mem,
             result |-> PyBool(WithinLimit(val, limit)), raised |-> FALSE]
       ELSE IF outcome \in {"incr_lost", "expire_raises"} THEN viaMem(s1)
       ELSE viaMem(store)

\* history of one more call
Logged(kind, id, result, raised, t) ==
    LET k == <<kind, id, _minute_bucket(0, t)>>
        old == IF k \in DOMAIN rlHist THEN rlHist[k] ELSE <<>>
    IN /\ rlHist' = IF Missing(id) THEN rlHist ELSE Put(rlHist, k, Append(old, result))
       /\ rlLast' = [n |-> rlLast.n + 1, kind |-> kind, id |-> id, result |-> result,
                     raised |-> raised, stable |-> rlLast.stable /\ ~raised]

\* await allow_user(user_id)
allow_user(user_id, outcome) ==
    /\ rlLast.n < MaxRateCalls
    /\ IF Missing(user_id)
       THEN /\ outcome = "local"
            /\ Logged("user", user_id, "True", FALSE, now)
            /\ UNCHANGED <<rlStore, _mem_user>>
       ELSE /\ OutcomePossible(outcome, rlCfg, rlStore,
                               RateKey("user", user_id, _minute_bucket(0, now)), now)
            /\ LET d == Counted("user", user_id, rlCfg.USER_RL_PER_MIN, rlStore,
                                _mem_user, outcome, now)
               IN /\ rlStore' = d.store
                  /\ _mem_user' = d.mem
                  /\ Logged("user", user_id, d.result, d.raised, now)
    /\ UNCHANGED <<rlCfg, _mem_ip, _mem_token>>
    /\ UNCHANGED <<cfg, now, reqs, cache, events, shadow, cacheWrites, call, lockVars,
                 procVars, libVars>>

\* await allow_token(token)
allow_token(token, outcome) ==
    /\ rlLast.n < MaxRateCalls
    /\ IF Missing(token)
       THEN /\ outcome = "local"
            /\ Logged("token", token, "True", FALSE, now)
            /\ UNCHANGED <<rlStore, _mem_token>>
       ELSE /\ OutcomePossible(outcome, rlCfg, rlStore,
                               RateKey("token", token, _minute_bucket(0, now)), now)
            /\ LET d == Counted("token", token, rlCfg.TOKEN_RL_PER_MIN, rlStore,
                                _mem_token, outcome, now)
               IN /\ rlStore' = d.store
                  /\ _mem_token' = d.mem
                  /\ Logged("token", token, d.result, d.raised, now)
    /\ UNCHANGED <<rlCfg, _mem_user, _mem_ip>>
    /\ UNCHANGED <<cfg, now, reqs, cache, events, shadow, cacheWrites, call, lockVars,
                 procVars, libVars>>

\* await allow_ip(ip): the body ends after line 67 (limit and key are
\* computed, nothing is counted) and the coroutine returns None; lines
\* 92-108 stand after the return of allow_token and never run.
allow_ip(ip) ==
    /\ rlLast.n < MaxRateCalls
    /\ Logged("ip", ip, IF Missing(ip) THEN "True" ELSE "None", FALSE, now)
    /\ UNCHANGED <<rlCfg, rlStore, _mem_user, _mem_ip, _mem_token>>
    /\ UNCHANGED <<cfg, now, reqs, cache, events, shadow, cacheWrites, call, lockVars,
                 procVars, libVars>>

InitRate ==
    /\ cfg = [EXPERIMENT_MODE |-> "single", AB_SPLIT |-> AB_SPLIT, SHADOW_TARGETS |-> <<>>]
    /\ now = 0
    /\ reqs = <<>>
    /\ cache = <<>>
    /\ events = EmptyBag
    /\ shadow = <<>>
    /\ cacheWrites = <<>>
    /\ call = IdleInvocation
    /\ \E c \in RateConfigs : RateImported(c)
    /\ CacheImported(FALSE)
    /\ OneProcess
    /\ LibIdle

NextRate ==
    \/ Tick
    \/ \E id \in Identities, outcome \in StoreOutcomes : allow_user(id, outcome)
    \/ \E id \in Identities, outcome \in StoreOutcomes : allow_token(id, outcome)
    \/ \E id \in Identities : allow_ip(id)

SpecRate == InitRate /\ [][NextRate]_vars

\* --------------------------------- the rate limiter, calls in flight
\* allow_user and allow_token suspend at `await r.incr(key)` and at
\* `await r.expire(key, 120)`; between two awaits a call runs alone on the
\* event loop.  fnRet holds the calls made: kind and id, the key of line 42
\* / 74, the await the call is suspended at (pc), the val incr returned,
\* the value returned and whether the shared store raised.
MemFor(kind) == IF kind = "user" THEN _mem_user ELSE _mem_token
SetMem(kind, mem) ==
    /\ _mem_user' = IF kind = "user" THEN mem ELSE _mem_user
    /\ _mem_token' = IF kind = "token" THEN mem ELSE _mem_token
LimitOf(kind) ==
    Max(1, IF kind = "user" THEN rlCfg.USER_RL_PER_MIN ELSE rlCfg.TOKEN_RL_PER_MIN)

\* lines 53-60 / 84-91 run by call c, then its return
CountedLocally(c, raised) ==
    [c EXCEPT !.pc = "done", !.raised = raised,
              !.result = PyBool(WithinLimit(MemEntry(MemFor(c.kind), c.id, now)[1],
                                            LimitOf(c.kind)))]

\* lines 49 / 81
CountedShared(c, val) ==
    [c EXCEPT !.pc = "done", !.val = val, !.result = PyBool(WithinLimit(val, LimitOf(c.kind)))]

InitRateAsync ==
    /\ cfg = [EXPERIMENT_MODE |-> "single", AB_SPLIT |-> AB_SPLIT, SHADOW_TARGETS |-> <<>>]
    /\ now = 0
    /\ reqs = <<>>
    /\ cache = <<>>
    /\ events = EmptyBag
    /\ shadow = <<>>
    /\ cacheWrites = <<>>
    /\ call = IdleInvocation
    /\ \E c \in RateConfigs : RateImported(c)
    /\ CacheImported(FALSE)
    /\ OneProcess
    /\ fnArg = [fn |-> "allow"]
    /\ fnRet = <<>>
    /\ _recent_ids = <<>>

RateAsyncFrame ==
    UNCHANGED <<cfg, now, reqs, cache, events, shadow, cacheWrites, call, rlCfg, _mem_ip,
                rlHist, rlLast, lockVars, procVars, fnArg, _recent_ids>>

\* The calls in flight or returned in one run.
MaxAsyncCalls == 3

\* allow_user(id) / allow_token(id) from its call to its first await, or
\* to its return when there is none.
AllowEnter(kind, id) ==
    /\ fnArg.fn = "allow"
    /\ Len(fnRet) < MaxAsyncCalls
    /\ LET c == [kind |-> kind, id |-> id, key |-> RateKey(kind, id, _minute_bucket(0, now)),
                 pc |-> "incr", val |-> 0, result |-> "None", raised |-> FALSE]
       IN IF Missing(id)
          THEN /\ fnRet' = Append(fnRet, [c EXCEPT !.pc = "done", !.result = "True"])
               /\ UNCHANGED <<rlStore, _mem_user, _mem_token>>
          ELSE IF rlCfg.REDIS_URL
          THEN /\ fnRet' = Append(fnRet, c)
               /\ UNCHANGED <<rlStore, _mem_user, _mem_token>>
          ELSE /\ fnRet' = Append(fnRet, CountedLocally(c, FALSE))
               /\ SetMem(kind, Put(MemFor(kind), id, MemEntry(MemFor(kind), id, now)))
               /\ UNCHANGED rlStore
    /\ RateAsyncFrame

\* `await r.incr(key)` of call i returns: lines 46-49 / 78-81
IncrReturns(i) ==
    /\ fnArg.fn = "allow"
    /\ i \in 1..Len(fnRet)
    /\ fnRet[i].pc = "incr"
    /\ rlStore' = Incr(rlStore, fnRet[i].key, now)
    /\ fnRet' = [fnRet EXCEPT ![i] =
                    IF rlStore'[fnRet[i].key].val = 1
                    THEN [fnRet[i] EXCEPT !.pc = "expire", !.val = 1]
                    ELSE CountedShared(fnRet[i], rlStore'[fnRet[i].key].val)]
    /\ UNCHANGED <<_mem_user, _mem_token>>
    /\ RateAsyncFrame

\* `await r.expire(key, 120)` of call i returns
ExpireReturns(i) ==
    /\ fnArg.fn = "allow"
    /\ i \in 1..Len(fnRet)
    /\ fnRet[i].pc = "expire"
    /\ rlStore' = IF StoreLive(rlStore, fnRet[i].key, now)
                  THEN Expire(rlStore, fnRet[i].key, now) ELSE rlStore
    /\ fnRet' = [fnRet EXCEPT ![i] = CountedShared(fnRet[i], fnRet[i].val)]
    /\ UNCHANGED <<_mem_user, _mem_token>>
    /\ RateAsyncFrame

\* the await of call i raises: lines 50-60 / 82-91
StoreRaises(i) ==
    /\ fnArg.fn = "allow"
    /\ i \in 1..Len(fnRet)
    /\ fnRet[i].pc \in {"incr", "expire"}
    /\ fnRet' = [fnRet EXCEPT ![i] = CountedLocally(fnRet[i], TRUE)]
    /\ SetMem(fnRet[i].kind, Put(MemFor(fnRet[i].kind), fnRet[i].id,
                                 MemEntry(MemFor(fnRet[i].kind), fnRet[i].id, now)))
    /\ UNCHANGED rlStore
    /\ RateAsyncFrame

\* The clock while calls wait for the store: an await has no deadline (the
\* client of line 27 is made without a timeout), so a call may be answered
\* after the 120 s of its counter key have passed.
MaxRateTime == 2
RateClock ==
    /\ now < MaxRateTime
    /\ now' = now + 1
    /\ UNCHANGED <<cfg, reqs, cache, events, shadow, cacheWrites, call, rateVars, lockVars,
                   procVars, libVars>>

NextRateAsync ==
    \/ RateClock
    \/ \E kind \in {"user", "token"}, id \in {"a", "None"} : AllowEnter(kind, id)
    \/ \E i \in 1..Len(fnRet) : IncrReturns(i)
    \/ \E i \in 1..Len(fnRet) : ExpireReturns(i)
    \/ \E i \in 1..Len(fnRet) : StoreRaises(i)

SpecRateAsync == InitRateAsync /\ [][NextRateAsync]_vars

\* ------------------------------------------- async cache and keyed lock
MaxLockTime == 2

\* The timeout_seconds arguments given to alock, in clock ticks.
TimeoutsTried == {1, 2}
\* The keys and payloads given to aget and aset.
CacheKeysTried == {"k1"}
CacheValues == {"poem"}

\* a client lookup that does not look at the flag
_redis_client_ignoresFlag ==
    IF _redis # "None" THEN _redis
    ELSE IF lkCfg.REDIS_URL THEN "client" ELSE "None"

\* _redis_client(): the client handed out, and _redis afterwards.
_redis_client ==
    IF _redis_disabled THEN "None"
    ELSE IF _redis # "None" THEN _redis
    ELSE IF lkCfg.REDIS_URL THEN "client" ELSE "None"
RedisAfterClient == IF _redis_disabled THEN _redis ELSE _redis_client

\* _locks.get(key), or a fresh asyncio.Lock(); by is the task it was last
\* granted to (asyncio.Lock itself keeps no owner).
LockOf(key) ==
    IF key \in DOMAIN _locks THEN _locks[key]
    ELSE [locked |-> FALSE, waiters |-> <<>>, by |-> "None"]

\* The shared store holds a lock for key that has not expired.  orphan marks
\* (as history) a lock whose owner left its block while the release call
\* failed.
RedisHeld(key, t) == key \in DOMAIN redisLocks /\ t < redisLocks[key].expires

\* history of one step of a cache or lock operation: shared tells whether it
\* contacted the shared store, after whether the flag was set before it.
Step(op, shared) ==
    lkLast' = [op |-> op, shared |-> shared, after |-> _redis_disabled]

\* await lock.acquire() on the asyncio.Lock of key by task t, whose record
\* is tk: granted at once when the lock is free and nobody waits, else the
\* task queues up.
LocalAcquire(t, key, tk) ==
    LET lock == LockOf(key)
    IN IF ~lock.locked /\ lock.waiters = <<>>
       THEN /\ _locks' = Put(_locks, key, [lock EXCEPT !.locked = TRUE, !.by = t])
            /\ tasks' = [tasks EXCEPT ![t] = [tk EXCEPT !.pc = "inside"]]
       ELSE /\ _locks' = Put(_locks, key, [lock EXCEPT !.waiters = Append(@, t)])
            /\ tasks' = [tasks EXCEPT ![t] = [tk EXCEPT !.pc = "local_wait", !.since = now]]

\* a release that leaves the lock locked
LocalRelease_keeps(key) == _locks

\* lock.release() of the asyncio.Lock of key; RuntimeError when it is not
\* locked, which the callers swallow.
LocalRelease(key) ==
    IF LockOf(key).locked
    THEN Put(_locks, key, [LockOf(key) EXCEPT !.locked = FALSE, !.by = "None"])
    ELSE _locks

\* What no cache or lock operation touches.
LockFrame ==
    UNCHANGED <<cfg, reqs, events, shadow, cacheWrites, call, rateVars, lkCfg, procVars, libVars>>

\* async with alock(key, timeout): alock picks the context manager, and
\* __aenter__ runs up to its first await.
AlockEnter(t, key, timeout) ==
    /\ tasks[t].pc = "idle"
    /\ _redis' = RedisAfterClient
    /\ IF _redis_client = "None"
       THEN /\ LocalAcquire(t, key, [IdleTask EXCEPT !.key = key, !.timeout = timeout,
                                                      !.mgr = "local", !.local_lock = key])
            /\ Step("alock", FALSE)
            /\ UNCHANGED <<_redis_disabled, redisLocks>>
       ELSE /\ tasks' = [tasks EXCEPT ![t] =
                            [IdleTask EXCEPT !.pc = "redis_wait", !.key = key,
                                             !.timeout = timeout, !.mgr = "redis",
                                             !.since = now]]
            /\ Step("alock", TRUE)
            /\ UNCHANGED <<_redis_disabled, _locks, redisLocks>>
    /\ UNCHANGED <<now, cache, redisKV>>
    /\ LockFrame

\* await self._redis_lock.acquire() returns True: the store had no live lock
\* for the key.
RedisAcquired(t) ==
    /\ tasks[t].pc = "redis_wait"
    /\ ~RedisHeld(tasks[t].key, now)
    /\ redisLocks' = Put(redisLocks, tasks[t].key,
                         [owner |-> t, expires |-> now + tasks[t].timeout,
                          orphan |-> FALSE])
    /\ tasks' = [tasks EXCEPT ![t].pc = "inside", ![t].redis_lock = "owned"]
    /\ Step("acquire", TRUE)
    /\ UNCHANGED <<now, cache, redisKV, _redis, _redis_disabled, _locks>>
    /\ LockFrame

\* await self._redis_lock.acquire() returns False: blocking_timeout has
\* passed and the lock is still held.  __aenter__ drops the value and
\* returns self.
RedisAcquireTimesOut(t) ==
    /\ tasks[t].pc = "redis_wait"
    /\ RedisHeld(tasks[t].key, now)
    /\ now >= tasks[t].since + tasks[t].timeout
    /\ tasks' = [tasks EXCEPT ![t].pc = "inside", ![t].redis_lock = "unowned"]
    /\ Step("acquire", TRUE)
    /\ UNCHANGED <<now, cache, redisKV, redisLocks, _redis, _redis_disabled, _locks>>
    /\ LockFrame

\* await self._redis_lock.acquire() raises: the flag is set and __aenter__
\* goes on with the local lock of the key.
RedisAcquireRaises(t) ==
    /\ tasks[t].pc = "redis_wait"
    /\ _redis' = "None"
    /\ _redis_disabled' = TRUE
    /\ LocalAcquire(t, tasks[t].key, [tasks[t] EXCEPT !.redis_lock = "None",
                                                      !.local_lock = tasks[t].key])
    /\ Step("acquire", TRUE)
    /\ UNCHANGED <<now, cache, redisKV, redisLocks>>
    /\ LockFrame

\* a waiter of an asyncio.Lock is woken: the lock was released and the task
\* is the first in the queue.
LocalGranted(t) ==
    /\ tasks[t].pc = "local_wait"
    /\ LET lock == LockOf(tasks[t].key)
       IN /\ ~lock.locked
          /\ lock.waiters # <<>>
          /\ Head(lock.waiters) = t
          /\ _locks' = Put(_locks, tasks[t].key,
                           [locked |-> TRUE, waiters |-> Tail(lock.waiters), by |-> t])
    /\ tasks' = [tasks EXCEPT ![t].pc = "inside"]
    /\ Step("acquire", FALSE)
    /\ UNCHANGED <<now, cache, redisKV, redisLocks, _redis, _redis_disabled>>
    /\ LockFrame

\* __aexit__ at the end of the block, left normally ("exit") or by an
\* exception ("exit_exc"), which is how.  rel is how the release call to the shared store ends when the
\* task owns a shared lock: "ok", or "raises" for a connection error; a
\* release of a lock that expired and was taken by another task raises
\* LockNotOwnedError, a release after acquire returned False raises
\* LockError without any call to the store.  All of them are swallowed.
AlockExit(t, how, rel) ==
    LET tk == tasks[t]
    IN /\ tk.pc = "inside"
       /\ tasks' = [tasks EXCEPT ![t] = IdleTask]
       /\ IF tk.mgr = "redis" /\ tk.redis_lock = "owned"
          THEN /\ redisLocks' =
                     IF tk.key \in DOMAIN redisLocks /\ redisLocks[tk.key].owner = t
                     THEN IF rel = "ok" THEN Pop(redisLocks, tk.key)
                          ELSE [redisLocks EXCEPT ![tk.key].orphan = TRUE]
                     ELSE redisLocks
               /\ Step(how, TRUE)
               /\ UNCHANGED _locks
          ELSE /\ rel = "ok"
               /\ _locks' = IF tk.local_lock # "None" THEN LocalRelease(tk.key) ELSE _locks
               /\ Step(how, FALSE)
               /\ UNCHANGED redisLocks
       /\ UNCHANGED <<now, cache, redisKV, _redis, _redis_disabled>>
       /\ LockFrame

\* json.dumps(value) and json.loads(val) on the payloads of the model
json_dumps(value) == "json:" \o value
json_loads(val) == SubSeq(val, 6, Len(val))

\* line 63: int(ttl_seconds or _LOCAL_TTL); NoneInt stands for None
TtlOf(ttl_seconds) == IF ttl_seconds \in {NoneInt, 0} THEN CacheTTL ELSE ttl_seconds

\* r.set(key, val, ex=ttl) on the shared store
StoreSet(c, key, val, t, ttl) ==
    [k \in {x \in DOMAIN c : t < c[x].expires} \cup {key} |->
        IF k = key THEN [value |-> val, expires |-> t + ttl] ELSE c[k]]

\* What aget(key) returns (lines 49-59) when r.get ends as outcome.
AgetReturn(key, outcome) ==
    IF _redis_client # "None"
    THEN IF outcome = "ok" /\ CacheLive(redisKV, key, now)
         THEN json_loads(redisKV[key].value) ELSE "None"
    ELSE IF CacheLive(cache, key, now) THEN cache[key].value ELSE "None"

\* What no aget or aset touches, the history of the calls apart.
CacheFrame ==
    UNCHANGED <<cfg, reqs, events, shadow, cacheWrites, call, rateVars, lkCfg, procVars,
                fnArg, _recent_ids>>

\* history, kept when the cache API is exercised on its own: the last aset
\* and the last aget after it.  shared tells whether the call ended on the
\* shared store (without an exception).
AsetDone(key, value, ttl_seconds, outcome) ==
    fnRet' = IF fnArg.fn # "cache" THEN fnRet
             ELSE <<[op |-> "aset", key |-> key, value |-> value,
                     ttl_seconds |-> ttl_seconds, at |-> now, shared |-> outcome = "ok"]>>
AgetDone(key, outcome) ==
    fnRet' = IF fnArg.fn # "cache" \/ fnRet = <<>> THEN fnRet
             ELSE <<fnRet[1], [op |-> "aget", key |-> key, at |-> now,
                               shared |-> outcome = "ok",
                               raised |-> outcome = "raises",
                               result |-> AgetReturn(key, outcome)]>>

\* await aget(key); outcome is how r.get ends ("local" when there is no
\* client).
aget(key, outcome) ==
    /\ IF _redis_client # "None"
       THEN /\ outcome \in {"ok", "raises"}
            /\ _redis' = IF outcome = "ok" THEN RedisAfterClient ELSE "None"
            /\ _redis_disabled' = IF outcome = "raises" THEN TRUE ELSE _redis_disabled
            /\ Step("aget", TRUE)
       ELSE /\ outcome = "local"
            /\ Step("aget", FALSE)
            /\ UNCHANGED <<_redis, _redis_disabled>>
    /\ AgetDone(key, outcome)
    /\ UNCHANGED <<now, cache, redisKV, redisLocks, _locks, tasks>>
    /\ CacheFrame

\* await aset(key, value, ttl_seconds); outcome is how r.set ends.
aset(key, value, ttl_seconds, outcome) ==
    /\ IF _redis_client # "None"
       THEN /\ outcome \in {"ok", "raises"}
            /\ _redis' = IF outcome = "ok" THEN RedisAfterClient ELSE "None"
            /\ _redis_disabled' = IF outcome = "raises" THEN TRUE ELSE _redis_disabled
            /\ redisKV' = IF outcome = "ok"
                          THEN StoreSet(redisKV, key, json_dumps(value), now,
                                        TtlOf(ttl_seconds))
                          ELSE redisKV
            /\ cache' = IF outcome = "ok" THEN cache ELSE CacheSet(cache, key, value, now)
            /\ Step("aset", TRUE)
       ELSE /\ outcome = "local"
            /\ cache' = CacheSet(cache, key, value, now)
            /\ Step("aset", FALSE)
            /\ UNCHANGED <<_redis, _redis_disabled, redisKV>>
    /\ AsetDone(key, value, ttl_seconds, outcome)
    /\ UNCHANGED <<now, redisLocks, _locks, tasks>>
    /\ CacheFrame

\* The entries of a TTL cache or of the shared store that are left at time
\* t: the store drops a key when its time is over, TTLCache hides it from
\* every read and drops it on the next write.
Unexpired(c, t) == [k \in {x \in DOMAIN c : t < c[x].expires} |-> c[k]]

\* Time passes.  A pending acquire on the shared store ends by the time its
\* blocking_timeout is over; a pending acquire on an asyncio.Lock has no
\* deadline.
LockTick ==
    /\ now < MaxLockTime
    /\ \A t \in Tasks :
          tasks[t].pc = "redis_wait" => now < tasks[t].since + tasks[t].timeout
    /\ now' = now + 1
    /\ cache' = Unexpired(cache, now + 1)
    /\ redisKV' = Unexpired(redisKV, now + 1)
    /\ redisLocks' = Unexpired(redisLocks, now + 1)
    /\ UNCHANGED <<_redis, _redis_disabled, _locks, tasks, lkLast>>
    /\ LockFrame

InitLock ==
    /\ cfg = [EXPERIMENT_MODE |-> "single", AB_SPLIT |-> AB_SPLIT, SHADOW_TARGETS |-> <<>>]
    /\ now = 0
    /\ reqs = <<>>
    /\ cache = <<>>
    /\ events = EmptyBag
    /\ shadow = <<>>
    /\ cacheWrites = <<>>
    /\ call = IdleInvocation
    /\ RateImported(DefaultRateCfg)
    /\ \E url \in BOOLEAN : CacheImported(url)
    /\ OneProcess
    /\ LibIdle

NextLock ==
    \/ LockTick
    \/ \E t \in Tasks, key \in LockKeys, timeout \in TimeoutsTried : AlockEnter(t, key, timeout)
    \/ \E t \in Tasks : RedisAcquired(t)
    \/ \E t \in Tasks : RedisAcquireTimesOut(t)
    \/ \E t \in Tasks : RedisAcquireRaises(t)
    \/ \E t \in Tasks : LocalGranted(t)
    \/ \E t \in Tasks, how \in {"exit", "exit_exc"}, rel \in {"ok", "raises"} :
          AlockExit(t, how, rel)
    \/ \E key \in CacheKeysTried, outcome \in {"ok", "raises", "local"} : aget(key, outcome)
    \/ \E key \in CacheKeysTried, value \in CacheValues, outcome \in {"ok", "raises", "local"} :
          aset(key, value, NoneInt, outcome)

SpecLock == InitLock /\ [][NextLock]_vars

\* ------------------------------------------- aget and aset on their own
\* The ttl_seconds arguments tried: None, one default lifetime, two.
TtlsTried == {NoneInt, 1, 2}

InitTTL ==
    /\ cfg = [EXPERIMENT_MODE |-> "single", AB_SPLIT |-> AB_SPLIT, SHADOW_TARGETS |-> <<>>]
    /\ now = 0
    /\ reqs = <<>>
    /\ cache = <<>>
    /\ events = EmptyBag
    /\ shadow = <<>>
    /\ cacheWrites = <<>>
    /\ call = IdleInvocation
    /\ RateImported(DefaultRateCfg)
    /\ \E url \in BOOLEAN : CacheImported(url)
    /\ OneProcess
    /\ fnArg = [fn |-> "cache"]
    /\ fnRet = <<>>
    /\ _recent_ids = <<>>

NextTTL ==
    \/ LockTick
    \/ \E key \in LockKeys, outcome \in {"ok", "raises", "local"} : aget(key, outcome)
    \/ \E key \in LockKeys, value \in {"poem", "other poem"}, ttl_seconds \in TtlsTried,
          outcome \in {"ok", "raises", "local"} :
          aset(key, value, ttl_seconds, outcome)

SpecTTL == InitTTL /\ [][NextTTL]_vars

\* -------------------------------------- two processes, one shared store
\* Both processes run generate_poem with REDIS_URL set.  The events table
\* is one database; cache._cache is a module global of each process.  The
\* actions of generate_poem act on the process in focus.
InitProcs ==
    /\ cfg = [EXPERIMENT_MODE |-> "single", AB_SPLIT |-> AB_SPLIT, SHADOW_TARGETS |-> <<>>]
    /\ now = 0
    /\ reqs = <<>>
    /\ cache = <<>>
    /\ events = EmptyBag
    /\ shadow = <<>>
    /\ cacheWrites = <<>>
    /\ call = IdleInvocation
    /\ RateImported(DefaultRateCfg)
    /\ CacheImported(TRUE)
    /\ focus = "p1"
    /\ procOf \in [1..MaxReq -> Procs]
    /\ peerCache = <<>>
    /\ LibIdle

\* The other process gets to run.
SwitchProcess ==
    /\ focus' = CHOOSE p \in Procs : p # focus
    /\ cache' = peerCache
    /\ peerCache' = cache
    /\ UNCHANGED <<cfg, now, reqs, events, shadow, cacheWrites, call, rateVars, lockVars,
                   procOf, libVars>>

\* The load balancer hands the next request to the process in focus.
Arrives == Len(reqs) < MaxReq /\ procOf[Len(reqs) + 1] = focus
\* Request i is being handled by the process in focus.
Handles(i) == i \in 1..Len(reqs) /\ procOf[i] = focus

NextProcs ==
    \/ Tick
    \/ SwitchProcess
    \/ \E tone \in Tones, tz \in Timezones, force_new \in BOOLEAN :
          Arrives /\ RequestOverBudget(tone, tz, force_new)
    \/ \E tone \in Tones, tz \in Timezones, force_new \in BOOLEAN :
          Arrives /\ RequestCacheHit(tone, tz, force_new)
    \/ \E tone \in Tones, tz \in Timezones, force_new \in BOOLEAN, hex4 \in HexTails :
          Arrives /\ RequestCallModel(tone, tz, force_new, hex4)
    \/ \E i \in 1..Len(reqs), resp \in ServiceResponses : Handles(i) /\ UpstreamRetry(i, resp)
    \/ \E i \in 1..Len(reqs), resp \in ServiceResponses : Handles(i) /\ UpstreamOk(i, resp)
    \/ \E i \in 1..Len(reqs), resp \in ServiceResponses : Handles(i) /\ UpstreamEmpty(i, resp)
    \/ \E i \in 1..Len(reqs), resp \in ServiceResponses : Handles(i) /\ UpstreamFail(i, resp)

SpecProcs == InitProcs /\ [][NextProcs]_vars

\* --------------------------------------------- shadow mode, two targets
\* SHADOW_TARGETS names two models; everything else as in Init.
InitShadow ==
    /\ cfg = [EXPERIMENT_MODE |-> "shadow", AB_SPLIT |-> AB_SPLIT,
              SHADOW_TARGETS |-> <<SECONDARY_MODEL, LegacyModel>>]
    /\ now = 0
    /\ reqs = <<>>
    /\ cache = <<>>
    /\ events = EmptyBag
    /\ shadow = <<>>
    /\ cacheWrites = <<>>
    /\ call = IdleInvocation
    /\ RateImported(DefaultRateCfg)
    /\ CacheImported(FALSE)
    /\ OneProcess
    /\ LibIdle

\* Requests of one tone that do not force a new poem, and their shadow calls.
NextShadow ==
    \/ Tick
    \/ \E tz \in Timezones : RequestOverBudget("Stoic", tz, FALSE)
    \/ \E tz \in Timezones : RequestCacheHit("Stoic", tz, FALSE)
    \/ \E tz \in Timezones, hex4 \in HexTails : RequestCallModel("Stoic", tz, FALSE, hex4)
    \/ \E i \in 1..Len(reqs), resp \in ServiceResponses : UpstreamRetry(i, resp)
    \/ \E i \in 1..Len(reqs), resp \in ServiceResponses : UpstreamOk(i, resp)
    \/ \E i \in 1..Len(reqs), resp \in ServiceResponses : UpstreamEmpty(i, resp)
    \/ \E i \in 1..Len(reqs), resp \in ServiceResponses : UpstreamFail(i, resp)
    \/ \E j \in 1..Len(shadow) : ShadowCall(j)
    \/ \E j \in 1..Len(shadow), resp \in ServiceResponses : ShadowRespond(j, resp)

SpecShadow == InitShadow /\ [][NextShadow]_vars

\* ----------------------------------------------- choose_model on its own
\* The digits of uuid4().hex, and int(s, 16) on a string of them.
HexDigits == 0..15

RECURSIVE HexInt(_)
HexInt(ds) ==
    IF ds = <<>> THEN 0
    ELSE 16 * HexInt(SubSeq(ds, 1, Len(ds) - 1)) + ds[Len(ds)]

\* req_id[-4:]
Last4(req_id) == SubSeq(req_id, Len(req_id) - 3, Len(req_id))

\* The request ids drawn: the hex part of "cv_" + uuid4().hex[:12], cut to
\* its last five digits, each of them one of four.
DigitsTried == {0, 3, 9, 15}
ReqIdsTried == [1..5 -> DigitsTried]

ModesTried == {"single", "ab", "shadow"}
SplitsTried == {0 - 5, 0, 20, 100, 150}

InitRoute ==
    /\ cfg \in [EXPERIMENT_MODE : ModesTried, AB_SPLIT : SplitsTried,
                SHADOW_TARGETS : {<<>>}]
    /\ now = 0
    /\ reqs = <<>>
    /\ cache = <<>>
    /\ events = EmptyBag
    /\ shadow = <<>>
    /\ cacheWrites = <<>>
    /\ call = IdleInvocation
    /\ RateImported(DefaultRateCfg)
    /\ CacheImported(FALSE)
    /\ OneProcess
    /\ fnArg \in [fn : {"choose_model"}, req_id : ReqIdsTried]
    /\ fnRet = <<>>
    /\ _recent_ids = <<>>

LibFrame ==
    UNCHANGED <<cfg, now, reqs, cache, events, shadow, cacheWrites, call, rateVars,
                lockVars, procVars>>

\* choose_model(cfg, req_id), line 140; applied twice to the same request id.
ChooseModel ==
    /\ fnArg.fn = "choose_model"
    /\ Len(fnRet) < 2
    /\ fnRet' = Append(fnRet, choose_model(cfg, HexInt(Last4(fnArg.req_id))))
    /\ UNCHANGED <<fnArg, _recent_ids>>
    /\ LibFrame

NextRoute == ChooseModel

SpecRoute == InitRoute /\ [][NextRoute]_vars

\* ------------------------------------- choose_model over all request ids
\* The ab configurations with a split inside 0..100.
SplitRange == 0..100

InitSplit ==
    /\ cfg \in [EXPERIMENT_MODE : {"ab"}, AB_SPLIT : SplitRange, SHADOW_TARGETS : {<<>>}]
    /\ now = 0
    /\ reqs = <<>>
    /\ cache = <<>>
    /\ events = EmptyBag
    /\ shadow = <<>>
    /\ cacheWrites = <<>>
    /\ call = IdleInvocation
    /\ RateImported(DefaultRateCfg)
    /\ CacheImported(FALSE)
    /\ OneProcess
    /\ fnArg = [fn |-> "choose_model_all"]
    /\ fnRet = <<>>
    /\ _recent_ids = <<>>

\* choose_model applied to every value of req_id[-4:], four hex digits; the
\* number of them routed to the secondary model is kept.
ChooseModelAll ==
    /\ fnArg.fn = "choose_model_all"
    /\ fnRet = <<>>
    /\ fnRet' = << Cardinality({ tail \in [1..4 -> HexDigits] :
                                   choose_model(cfg, HexInt(tail)) = SECONDARY_MODEL }) >>
    /\ UNCHANGED <<fnArg, _recent_ids>>
    /\ LibFrame

NextSplit == ChooseModelAll

SpecSplit == InitSplit /\ [][NextSplit]_vars

\* ---------------------------------------------- _extract_text on its own
\* Where an item of the responses drawn holds its text: in no field, a blank
\* text, its text field, its summary, a content block typed output_text, a
\* content block without a type, or a raw string among its content.
Holds == {"nowhere", "blank", "text", "summary", "block", "untyped block", "raw"}

\* The item of that shape whose text is t; its blocks are of its own form.
ItemOf(form, type, holds, t) ==
    [ form |-> form, type |-> type,
      text |-> IF holds = "text" THEN t ELSE IF holds = "blank" THEN " " ELSE "None",
      summary |-> IF holds = "summary" THEN t ELSE "None",
      content |->
          CASE holds = "block" ->
                   List(<< [kind |-> form, type |-> "output_text", text |-> t] >>)
            [] holds = "untyped block" ->
                   List(<< [kind |-> form, type |-> "None", text |-> t] >>)
            [] holds = "raw" ->
                   List(<< [kind |-> "str", type |-> "None", text |-> " frag "] >>)
            [] holds = "blank" -> List(<<>>)
            [] OTHER -> NoList ]

ItemTypes == {"message", "reasoning"}

\* The texts of the responses drawn tell where they were found.
TextIn(list, type) ==
    IF list = "output" THEN (IF type = "reasoning" THEN "thought" ELSE "poem")
    ELSE (IF type = "reasoning" THEN "alt thought" ELSE "alt poem")

OutputItems ==
    { ItemOf(form, type, holds, TextIn("output", type)) :
        form \in {"obj", "dict"}, type \in ItemTypes, holds \in Holds }

DataItems ==
    { ItemOf("obj", type, holds, TextIn("data", type)) :
        type \in ItemTypes, holds \in {"nowhere", "text", "block", "raw"} }

OutputsTried ==
    {NoList, List(<<>>)} \cup {List(<<a>>) : a \in OutputItems}
                         \cup {List(<<a, b>>) : a \in OutputItems, b \in OutputItems}

DataTried == {NoList, List(<<>>)} \cup {List(<<a>>) : a \in DataItems}

ExtractResponses ==
    [kind : {"ok"}, output_text : {"None", " ", "top"}, output : OutputsTried,
     data : DataTried, usage : {CHOOSE u \in Usages : u.present}, id : {"resp_1"},
     msg : {{}}]

InitExtract ==
    /\ cfg = [EXPERIMENT_MODE |-> "single", AB_SPLIT |-> AB_SPLIT, SHADOW_TARGETS |-> <<>>]
    /\ now = 0
    /\ reqs = <<>>
    /\ cache = <<>>
    /\ events = EmptyBag
    /\ shadow = <<>>
    /\ cacheWrites = <<>>
    /\ call = IdleInvocation
    /\ RateImported(DefaultRateCfg)
    /\ CacheImported(FALSE)
    /\ OneProcess
    /\ fnArg \in [fn : {"_extract_text"}, resp : ExtractResponses]
    /\ fnRet = <<>>
    /\ _recent_ids = <<>>

\* _extract_text(resp)
ExtractText ==
    /\ fnArg.fn = "_extract_text"
    /\ fnRet = <<>>
    /\ fnRet' = <<_extract_text(fnArg.resp)>>
    /\ UNCHANGED <<fnArg, _recent_ids>>
    /\ LibFrame

\* generate whose responses.create answers resp at once: how it ends and the
\* text of its result are kept.
GenerateOn ==
    /\ fnArg.fn = "_extract_text"
    /\ Len(fnRet) = 1
    /\ LET inv == GenerateResume(GenerateStart(PRIMARY_MODEL, "None", "low", "low", now),
                                 fnArg.resp, now)
       IN  fnRet' = fnRet \o <<inv.pc, inv.res.text>>
    /\ UNCHANGED <<fnArg, _recent_ids>>
    /\ LibFrame

NextExtract == ExtractText \/ GenerateOn

SpecExtract == InitExtract /\ [][NextExtract]_vars

\* ------------------------------------------------ daypart_for on its own
Dayparts ==
    {"pre-dawn", "early morning", "morning", "midday", "afternoon", "evening",
     "late night"}

\* daypart_for with bands that leave out their last minute
daypart_for_openBands(hour, minute) ==
    LET hm == hour * 60 + minute
    IN  IF 4 * 60 <= hm /\ hm < 5 * 60 + 59 THEN "pre-dawn"
        ELSE IF 6 * 60 <= hm /\ hm < 7 * 60 + 59 THEN "early morning"
        ELSE IF 8 * 60 <= hm /\ hm < 11 * 60 + 29 THEN "morning"
        ELSE IF 11 * 60 + 30 <= hm /\ hm < 13 * 60 + 29 THEN "midday"
        ELSE IF 13 * 60 + 30 <= hm /\ hm < 16 * 60 + 59 THEN "afternoon"
        ELSE IF 17 * 60 <= hm /\ hm < 20 * 60 + 29 THEN "evening"
        ELSE "late night"

\* lines 35-58, on local_dt.hour and local_dt.minute
daypart_for(hour, minute) ==
    LET hm == hour * 60 + minute
    IN  IF 4 * 60 <= hm /\ hm <= 5 * 60 + 59 THEN "pre-dawn"
        ELSE IF 6 * 60 <= hm /\ hm <= 7 * 60 + 59 THEN "early morning"
        ELSE IF 8 * 60 <= hm /\ hm <= 11 * 60 + 29 THEN "morning"
        ELSE IF 11 * 60 + 30 <= hm /\ hm <= 13 * 60 + 29 THEN "midday"
        ELSE IF 13 * 60 + 30 <= hm /\ hm <= 16 * 60 + 59 THEN "afternoon"
        ELSE IF 17 * 60 <= hm /\ hm <= 20 * 60 + 29 THEN "evening"
        ELSE "late night"

InitDaypart ==
    /\ cfg = [EXPERIMENT_MODE |-> "single", AB_SPLIT |-> AB_SPLIT, SHADOW_TARGETS |-> <<>>]
    /\ now = 0
    /\ reqs = <<>>
    /\ cache = <<>>
    /\ events = EmptyBag
    /\ shadow = <<>>
    /\ cacheWrites = <<>>
    /\ call = IdleInvocation
    /\ RateImported(DefaultRateCfg)
    /\ CacheImported(FALSE)
    /\ OneProcess
    /\ fnArg \in [fn : {"daypart_for"}, hour : 0..23, minute : 0..59]
    /\ fnRet = <<>>
    /\ _recent_ids = <<>>

\* daypart_for(local_dt), line 101
DaypartFor ==
    /\ fnArg.fn = "daypart_for"
    /\ fnRet = <<>>
    /\ fnRet' = <<daypart_for(fnArg.hour, fnArg.minute)>>
    /\ UNCHANGED <<fnArg, _recent_ids>>
    /\ LibFrame

NextDaypart == DaypartFor

SpecDaypart == InitDaypart /\ [][NextDaypart]_vars

\* ------------------------------------------------ micro_directives.pick
MaxPicks == 3

\* The ids of DIRECTIVES, in order (lines 169-191); no directive has
\* allow_tones, so every tone passes the gate of lines 268 and 276.
DIRECTIVES == <<"place", "color", "material", "motionverb", "light", "voice", "form">>

BUCKET_ORDER ==
    <<"place", "sensory", "object", "motionverb", "light", "voice", "form", "material",
      "color", "geography", "figurative", "lens", "microbeat", "sound", "digit">>

\* BUCKET_MAP.get(bucket, [])
BUCKET_MAP(bucket) ==
    IF bucket \in {"place", "motionverb", "light", "voice", "form", "material", "color"}
    THEN {bucket} ELSE {}

\* lines 261-277
Candidates(minute_of_day, tone) ==
    LET bucket == BUCKET_ORDER[(minute_of_day % Len(BUCKET_ORDER)) + 1]
        inBucket == SelectSeq(DIRECTIVES, LAMBDA id : id \in BUCKET_MAP(bucket))
    IN  IF inBucket # <<>> THEN inBucket ELSE DIRECTIVES

\* The salts tried, request ids, and
\* int(hashlib.sha256(salt.encode("utf-8")).hexdigest(), 16) % 7 for them.
Salts == {"cv_a1b2c3d4e5f6", "cv_0123456789ab"}
Sha256Mod7(salt) == IF salt = "cv_a1b2c3d4e5f6" THEN 6 ELSE 1

\* lines 237-245, for the lists of 7 and of 1 that pick passes
_hash_choice(seq, salt) ==
    seq[(IF Len(seq) = 7 THEN Sha256Mod7(salt) ELSE 0) + 1]

\* deque(maxlen=64).append
RECENT_MAXLEN == 64
RecentAppend(recent, id) ==
    IF Len(recent) = RECENT_MAXLEN THEN Append(Tail(recent), id) ELSE Append(recent, id)

InRecent(id) == \E k \in 1..Len(_recent_ids) : _recent_ids[k] = id

MinutesTried == {0, 1}

InitPick ==
    /\ cfg = [EXPERIMENT_MODE |-> "single", AB_SPLIT |-> AB_SPLIT, SHADOW_TARGETS |-> <<>>]
    /\ now = 0
    /\ reqs = <<>>
    /\ cache = <<>>
    /\ events = EmptyBag
    /\ shadow = <<>>
    /\ cacheWrites = <<>>
    /\ call = IdleInvocation
    /\ RateImported(DefaultRateCfg)
    /\ CacheImported(FALSE)
    /\ OneProcess
    /\ fnArg = [fn |-> "pick"]
    /\ fnRet = <<>>
    /\ _recent_ids = <<>>

\* lines 280-283: one sample; draw is what random.choice(candidates) gives
\* when it is asked.
_pick_one(candidates, salt, draw) ==
    IF salt = "None" THEN draw ELSE _hash_choice(candidates, salt)

\* a loop that gives up after three tries
RECURSIVE TryLoop_threeTries(_, _, _, _)
TryLoop_threeTries(tries, candidates, salt, draws) ==
    IF tries < 3
    THEN IF ~InRecent(_pick_one(candidates, salt, draws[tries + 1]))
         THEN [id |-> _pick_one(candidates, salt, draws[tries + 1]), rejected |-> tries]
         ELSE TryLoop_threeTries(tries + 1, candidates, salt, draws)
    ELSE [id |-> draws[6], rejected |-> tries]

\* lines 285-296: the loop of five tries from the given count of tries on,
\* then the unconditional random.choice of line 294.  draws[k] is the
\* outcome of the k-th random.choice the call could ask for (the sixth is
\* the one of line 294); rejected counts the samples found in _recent_ids.
RECURSIVE TryLoop(_, _, _, _)
TryLoop(tries, candidates, salt, draws) ==
    IF tries < 5
    THEN IF ~InRecent(_pick_one(candidates, salt, draws[tries + 1]))
         THEN [id |-> _pick_one(candidates, salt, draws[tries + 1]), rejected |-> tries]
         ELSE TryLoop(tries + 1, candidates, salt, draws)
    ELSE [id |-> draws[6], rejected |-> tries]

\* The outcomes of random.choice tried: sequences of six draws among the
\* candidates, over two directive ids.
DrawsTried(candidates) ==
    [1..6 -> {candidates[k] : k \in 1..Len(candidates)} \cap {"place", "color"}]

\* pick(minute_of_day, tone, salt), lines 248-296.
\* fnRet keeps the calls made with the directive id each returned and the
\* number of samples the loop rejected.
pick(minute_of_day, tone, salt, draws) ==
    /\ fnArg.fn = "pick"
    /\ Len(fnRet) < MaxPicks
    /\ draws \in DrawsTried(Candidates(minute_of_day, tone))
    /\ _recent_ids' = RecentAppend(_recent_ids,
                                   TryLoop(0, Candidates(minute_of_day, tone), salt, draws).id)
    /\ fnRet' = Append(fnRet,
                       [minute_of_day |-> minute_of_day, tone |-> tone, salt |-> salt,
                        id |-> TryLoop(0, Candidates(minute_of_day, tone), salt, draws).id,
                        rejected |-> TryLoop(0, Candidates(minute_of_day, tone),
                                             salt, draws).rejected])
    /\ UNCHANGED fnArg
    /\ LibFrame

NextPick ==
    \E minute_of_day \in MinutesTried, tone \in Tones, salt \in Salts \cup {"None"},
       draws \in [1..6 -> {"place", "color"}] :
        pick(minute_of_day, tone, salt, draws)

SpecPick == InitPick /\ [][NextPick]_vars

\* ------------------------------------- generate_poem: the time and the poem
\* strftime on the fields of the local time: %M and %H give two digits,
\* %-I the hour of the 12-hour clock without a leading zero, %p AM or PM.
Digit(n) == SubSeq("0123456789", n + 1, n + 1)
TwoDigits(n) == Digit(n \div 10) \o Digit(n % 10)
Hour12(hour) == IF hour % 12 = 0 THEN 12 ELSE hour % 12
AmPm(hour) == IF hour < 12 THEN "AM" ELSE "PM"

\* lines 26-33 (os.name is not "nt"), on the local hour and minute
time_str(hour, minute, fmt) ==
    IF fmt = "24h" THEN TwoDigits(hour) \o ":" \o TwoDigits(minute)
    ELSE (IF Hour12(hour) < 10 THEN Digit(Hour12(hour)) ELSE TwoDigits(Hour12(hour)))
         \o ":" \o TwoDigits(minute) \o " " \o AmPm(hour)

\* str.replace(old, "")
RECURSIVE Remove(_, _)
Remove(str, old) ==
    IF Len(str) < Len(old) THEN str
    ELSE IF SubSeq(str, 1, Len(old)) = old
    THEN Remove(SubSeq(str, Len(old) + 1, Len(str)), old)
    ELSE SubSeq(str, 1, 1) \o Remove(SubSeq(str, 2, Len(str)), old)

\* line 138
t_for_prompt(t_used) == Remove(Remove(Remove(Remove(t_used, " AM"), " PM"), " am"), " pm")

\* Texts the upstream model may answer to a prompt that names the time
\* prompt_time, for a request whose time_used is t_used.
PoemsFor(t_used, prompt_time) ==
    { "the clock hums " \o prompt_time,
      "at " \o t_used \o " the kettle sings",
      t_used \o ", again " \o t_used,
      "noon, in plain words",
      " " }

HoursTried == {0, 9, 12, 21}
ClockMinutesTried == {0, 5, 30}
FormatsTried == {"12h", "24h", "auto"}

InitPoemTime ==
    /\ cfg = [EXPERIMENT_MODE |-> "single", AB_SPLIT |-> AB_SPLIT, SHADOW_TARGETS |-> <<>>]
    /\ now = 0
    /\ reqs = <<>>
    /\ cache = <<>>
    /\ events = EmptyBag
    /\ shadow = <<>>
    /\ cacheWrites = <<>>
    /\ call = IdleInvocation
    /\ RateImported(DefaultRateCfg)
    /\ CacheImported(FALSE)
    /\ OneProcess
    /\ fnArg \in [fn : {"generate_poem"}, hour : HoursTried, minute : ClockMinutesTried,
                  fmt : FormatsTried, tone : {"Stoic"}, tz : Timezones]
    /\ fnRet = <<>>
    /\ _recent_ids = <<>>

\* generate_poem at the local time fnArg.hour:fnArg.minute, with the budget
\* not spent and nothing cached, the upstream model answering text at once:
\* lines 99, 138-146 and 146-198.  The prompt's time and the payload
\* returned are kept.
GeneratePoemAt(text) ==
    /\ fnArg.fn = "generate_poem"
    /\ fnRet = <<>>
    /\ LET t_used == time_str(fnArg.hour, fnArg.minute,
                              IF fnArg.fmt \notin {"12h", "24h"} THEN "12h" ELSE fnArg.fmt)
           prompt_time == t_for_prompt(t_used)
           resp == [kind |-> "ok", output_text |-> text, output |-> NoList, data |-> NoList,
                    usage |-> CHOOSE u \in Usages : u.present, id |-> "resp_1", msg |-> {}]
           res == GenerateResume(GenerateStart(choose_model(cfg, 0), "None", "low", "low",
                                               now), resp, now).res
       IN  /\ text \in PoemsFor(t_used, prompt_time)
           /\ fnRet' = << prompt_time,
                          IF Strip(res.text) = ""
                          THEN EmptyFallback(res, 1, fnArg.tone, fnArg.tz, t_used, now)
                          ELSE OkPayload(res, 1, fnArg.tone, fnArg.tz, t_used, now) >>
    /\ UNCHANGED <<fnArg, _recent_ids>>
    /\ LibFrame

\* Every text of PoemsFor, for the times and formats tried.
PoemsTried ==
    UNION { PoemsFor(time_str(h, m, f), t_for_prompt(time_str(h, m, f))) :
              h \in HoursTried, m \in ClockMinutesTried, f \in {"12h", "24h"} }

NextPoemTime == \E text \in PoemsTried : GeneratePoemAt(text)

SpecPoemTime == InitPoemTime /\ [][NextPoemTime]_vars

\* ------------------------- generate_poem: the clock, the format, the cache
\* The wall clock `now` counts the minutes of one local day; generate_poem
\* reads it at line 27 (inside time_str) and again at line 100.
MaxClock == 2
StartsTried == {359, 719}
HourOf(m) == (m \div 60) % 24
MinuteOf(m) == m % 60

\* line 99: the format passed to time_str
FmtUsed(fmt) == IF fmt \notin {"12h", "24h"} THEN "12h" ELSE fmt

InitContext ==
    /\ cfg = [EXPERIMENT_MODE |-> "single", AB_SPLIT |-> AB_SPLIT, SHADOW_TARGETS |-> <<>>]
    /\ now \in StartsTried
    /\ reqs = <<>>
    /\ cache = <<>>
    /\ events = EmptyBag
    /\ shadow = <<>>
    /\ cacheWrites = <<>>
    /\ call = IdleInvocation
    /\ RateImported(DefaultRateCfg)
    /\ CacheImported(FALSE)
    /\ OneProcess
    /\ fnArg = [fn |-> "generate_poem_context", start |-> now]
    /\ fnRet = <<>>
    /\ _recent_ids = <<>>

\* The wall clock moves on between two requests.
ClockTick ==
    /\ fnArg.fn = "generate_poem_context"
    /\ now < fnArg.start + MaxClock
    /\ now' = now + 1
    /\ UNCHANGED <<cfg, reqs, cache, events, shadow, cacheWrites, call, rateVars, lockVars,
                   procVars, libVars>>

\* What a request of generate_poem returns and writes to the cache, lines
\* 133-136 and 173-200, for the context derived at lines 99-102; the
\* upstream model answers a poem at once.
ServeContext(rid, tone, tz, t_used, key, force_new, t) ==
    IF MustGenerate(force_new, cache, key, t)
    THEN OkPayload(GenerateResume(GenerateStart(choose_model(cfg, 0), "None", "low", "low", t),
                                  [kind |-> "ok", output_text |-> "a poem", output |-> NoList,
                                   data |-> NoList, usage |-> CHOOSE u \in Usages : u.present,
                                   id |-> "resp_1", msg |-> {}], t).res,
                   rid, tone, tz, t_used, t)
    ELSE CachedPayload(cache[key].value)

\* line 98: the request ids drawn, one per request
ReqIdOf(rid) == IF rid % 2 = 1 THEN "cv_a1b2c3d4e5f6" ELSE "cv_0123456789ab"

\* generate_poem(cfg, adapter, tone, tz, fmt, force_new) with the budget not
\* spent.  The clock reads now at line 27 and, when crossed, the next minute
\* at line 100.  Line 103 picks the directive (random.choice giving "place"
\* when asked).  fnRet keeps, per request, the format asked for, the local
\* minute of the cache key, the daypart and the payload returned.
GeneratePoemContext(tone, fmt, force_new, crossed) ==
    /\ fnArg.fn = "generate_poem_context"
    /\ Len(fnRet) < MaxReq
    /\ now + (IF crossed THEN 1 ELSE 0) <= fnArg.start + MaxClock
    /\ now' = now + (IF crossed THEN 1 ELSE 0)
    /\ _recent_ids' = RecentAppend(_recent_ids,
                                   TryLoop(0, Candidates(now', tone), ReqIdOf(Len(fnRet) + 1),
                                           [k \in 1..6 |-> "place"]).id)
    /\ fnRet' = Append(fnRet,
          [fmt |-> fmt, minute |-> now', force_new |-> force_new,
           daypart |-> daypart_for(HourOf(now'), MinuteOf(now')),
           payload |-> ServeContext(Len(fnRet) + 1, tone, "UTC",
                                    time_str(HourOf(now), MinuteOf(now), FmtUsed(fmt)),
                                    CacheKey(now', "UTC", tone), force_new, now')])
    /\ IF MustGenerate(force_new, cache, CacheKey(now', "UTC", tone), now')
       THEN /\ cache' = CacheSet(cache, CacheKey(now', "UTC", tone),
                                 fnRet'[Len(fnRet')].payload, now')
            /\ events' = write_event(events, EventRow(fnRet'[Len(fnRet')].payload, now'))
       ELSE UNCHANGED <<cache, events>>
    /\ UNCHANGED <<cfg, reqs, shadow, cacheWrites, call, rateVars, lockVars, procVars, fnArg>>

NextContext ==
    \/ ClockTick
    \/ \E tone \in Tones, fmt \in FormatsTried, force_new \in BOOLEAN, crossed \in BOOLEAN :
          GeneratePoemContext(tone, fmt, force_new, crossed)

SpecContext == InitContext /\ [][NextContext]_vars

\* ================================================================== claims

\* adapter.generate has been invoked for request r
Called(r) == r.pc = "adapter" \/ r.calls > 0

SameKey(r1, r2) == r1.minute = r2.minute /\ r1.tz = r2.tz /\ r1.tone = r2.tone

\* C1: among the non-forced requests that share one cache key (same local
\* minute, timezone, tone, primary model) at most one leads to an upstream
\* adapter call.
C1_OneUpstreamCallPerKey ==
    \A i, j \in 1..Len(reqs) :
        (i # j /\ ~reqs[i].force_new /\ ~reqs[j].force_new /\ SameKey(reqs[i], reqs[j]))
            => ~(Called(reqs[i]) /\ Called(reqs[j]))

\* C2: a request that enters while today's cost sum has reached the daily
\* ceiling returns at once the fallback result with cost 0.0 and without an
\* adapter call, forced or not, cache entry or not; and within one day the
\* sum, once at the ceiling, stays there.
C2_BudgetGate ==
    [][ /\ (Len(reqs') = Len(reqs) + 1
              /\ today_cost_sum(events, now) >= DAILY_COST_LIMIT_USD)
           => LET r == reqs'[Len(reqs')]
              IN /\ r.pc = "done"
                 /\ r.result.status = "fallback"
                 /\ r.result.cost_usd = 0
                 /\ r.result.cached = FALSE
                 /\ r.inv.pc = "idle" /\ r.calls = 0
        /\ (today_cost_sum(events, now) >= DAILY_COST_LIMIT_USD
              /\ DayOf(now') = DayOf(now))
           => today_cost_sum(events', now') >= DAILY_COST_LIMIT_USD ]_vars

\* A forced request was answered by the budget fallback while the cache
\* held a live entry for its key.
C2_Witness ==
    \E i \in 1..Len(reqs) :
        /\ reqs[i].path = "budget" /\ reqs[i].force_new
        /\ now = reqs[i].minute
        /\ \E k \in DOMAIN cache :
              /\ k = <<reqs[i].minute, reqs[i].tz, reqs[i].tone, PRIMARY_MODEL>>
              /\ now < cache[k].expires

\* C3: every request that has left the adapter has returned a result with
\* status ok or fallback; when the adapter raised (also on a failed retry)
\* the result is the fixed fallback poem with zero tokens, zero cost,
\* retry_count 0 and no model, response id or latency.
C3_NeverRaises ==
    \A i \in 1..Len(reqs) :
        LET r == reqs[i] IN
        /\ r.pc \in {"adapter", "done"}
        /\ r.pc = "done" => r.result.status \in {"ok", "fallback"}
        /\ r.outcome # "none" => r.pc = "done"
        /\ r.outcome = "raised" =>
              /\ r.result.poem = FallbackPoem
              /\ r.result.status = "fallback"
              /\ r.result.prompt_tokens = 0
              /\ r.result.completion_tokens = 0
              /\ r.result.reasoning_tokens = 0
              /\ r.result.cost_usd = 0
              /\ r.result.retry_count = 0
              /\ r.result.model = "None"
              /\ r.result.response_id = "None"
              /\ r.result.latency_ms = NoneInt

\* The adapter raised on its retry and the request returned the fallback.
C3_Witness ==
    \E i \in 1..Len(reqs) :
        reqs[i].outcome = "raised" /\ reqs[i].calls = 2 /\ reqs[i].pc = "done"

\* C4: every returned result whose status is not ok has cost_usd 0.0.
C4_NonOkCostsNothing ==
    \A i \in 1..Len(reqs) :
        (reqs[i].pc = "done" /\ reqs[i].result.status # "ok")
            => reqs[i].result.cost_usd = 0

\* An empty-text fallback for a call that consumed priced tokens.
C4_Witness ==
    \E i \in 1..Len(reqs) :
        /\ reqs[i].path = "empty"
        /\ cost_usd(reqs[i].res.model, reqs[i].res.prompt_tokens,
                    reqs[i].res.completion_tokens) > 0

\* C5: every result with cached = true equals, but for the cached flag, the
\* ok result of an earlier request with the same local minute, timezone and
\* tone.
C5_CachedIsPriorOk ==
    \A i \in 1..Len(reqs) :
        reqs[i].result.cached =>
            \E j \in reqs[i].prior :
                /\ reqs[j].result.status = "ok"
                /\ reqs[j].result.cached = FALSE
                /\ SameKey(reqs[j], reqs[i])
                /\ reqs[j].result.timezone = reqs[i].tz
                /\ reqs[j].result.tone = reqs[i].tone
                /\ reqs[i].result = [reqs[j].result EXCEPT !.cached = TRUE]

\* A cache hit.
C5_Witness ==
    \E i \in 1..Len(reqs) : reqs[i].pc = "done" /\ reqs[i].result.cached

WritePos(i) ==
    IF \E k \in 1..Len(cacheWrites) : cacheWrites[k].request_id = i
    THEN CHOOSE k \in 1..Len(cacheWrites) : cacheWrites[k].request_id = i
    ELSE 0

C7_ForceNewBypassesCache ==
    [][ /\ (Len(reqs') = Len(reqs) + 1
              /\ reqs'[Len(reqs')].force_new
              /\ today_cost_sum(events, now) < DAILY_COST_LIMIT_USD)
           => /\ reqs'[Len(reqs')].pc = "adapter"
              /\ reqs'[Len(reqs')].inv.pc = "call1"
              /\ Len(reqs'[Len(reqs')].inv.sent) = 1
        /\ \A i \in 1..Len(reqs') :
              (reqs'[i].force_new /\ reqs'[i].pc = "done") => reqs'[i].result.cached = FALSE
      ]_vars

\* A forced request entered after another request had cached an ok result
\* for the same key in the same minute, and returned a fresh ok result.
C7_Witness ==
    \E i, j \in 1..Len(reqs) :
        /\ i \in reqs[j].prior /\ SameKey(reqs[i], reqs[j])
        /\ reqs[i].path = "ok" /\ reqs[i].result.model = PRIMARY_MODEL
        /\ reqs[j].force_new /\ reqs[j].path = "ok" /\ reqs[j].calls > 0

\* C8: in every experiment mode every cache entry is an ok result of the
\* primary model, every cache.set was made by a request that returned such a
\* result, and no step of a shadow task changes the cache.
C8_CacheOnlyPrimaryOk ==
    /\ \A k \in DOMAIN cache :
          /\ cache[k].value.status = "ok"
          /\ cache[k].value.model = PRIMARY_MODEL
          /\ cache[k].value.cached = FALSE
    /\ \A k \in 1..Len(cacheWrites) :
          LET r == reqs[cacheWrites[k].request_id]
          IN r.path = "ok" /\ r.result.model = PRIMARY_MODEL
    /\ \A i \in 1..Len(reqs) :
          (reqs[i].pc = "done"
             /\ (reqs[i].result.status # "ok" \/ reqs[i].result.model # PRIMARY_MODEL
                 \/ reqs[i].result.cached))
          => WritePos(i) = 0

\* The cache holds an entry and an ok result of the secondary model was not
\* written to it.
C8_Witness ==
    /\ cache # <<>>
    /\ \E i \in 1..Len(reqs) :
          /\ reqs[i].path = "ok" /\ reqs[i].result.model = SECONDARY_MODEL
          /\ WritePos(i) = 0

\* C9: when the adapter returns blank text the request returns the fixed
\* fallback poem with status fallback and cost 0.0, carrying the adapter's
\* token counts, latency, retry_count and response id, and the step writes
\* nothing to the cache.
C9_EmptyTextFallback ==
    [][ \A i \in 1..Len(reqs) :
          (reqs[i].pc = "adapter" /\ reqs'[i].outcome = "returned"
             /\ Strip(reqs'[i].res.text) = "")
          => /\ reqs'[i].pc = "done"
             /\ reqs'[i].result.poem = FallbackPoem
             /\ reqs'[i].result.status = "fallback"
             /\ reqs'[i].result.cost_usd = 0
             /\ reqs'[i].result.prompt_tokens = reqs'[i].res.prompt_tokens
             /\ reqs'[i].result.completion_tokens = reqs'[i].res.completion_tokens
             /\ reqs'[i].result.reasoning_tokens = reqs'[i].res.reasoning_tokens
             /\ reqs'[i].result.latency_ms = reqs'[i].res.latency_ms
             /\ reqs'[i].result.retry_count = reqs'[i].res.retry_count
             /\ reqs'[i].result.response_id = reqs'[i].res.response_id
             /\ cache' = cache /\ cacheWrites' = cacheWrites ]_vars

\* An empty-text fallback after a retry, with tokens and latency to carry.
C9_Witness ==
    \E i \in 1..Len(reqs) :
        /\ reqs[i].path = "empty"
        /\ reqs[i].res.prompt_tokens > 0 /\ reqs[i].res.retry_count = 1
        /\ reqs[i].res.latency_ms > 0 /\ reqs[i].res.response_id # "None"

\* C10: one invocation of generate makes at most two responses.create calls,
\* the second only after a rejection of the first; a returned result has
\* retry_count 0 or 1, one less than the number of calls made.
C10_AtMostOneRetry ==
    /\ Len(call.sent) <= 2
    /\ call.pc = "call1" => Len(call.sent) = 1
    /\ call.pc = "call2" => Len(call.sent) = 2
    /\ call.pc = "returned" =>
          /\ call.res.retry_count \in {0, 1}
          /\ call.res.retry_count = Len(call.sent) - 1

\* The retry was made and failed: the error propagated after two calls.
C10_Witness == call.pc = "raised" /\ Len(call.sent) = 2

\* str(e) reports an unsupported parameter
Unsupported(msg) == "Unsupported parameter" \in msg \/ "is not supported" \in msg

\* the first responses.create of the invocation was rejected as unsupported
\* with a message naming word
RejectedNaming(inv, word) ==
    /\ inv.pc # "idle"
    /\ Len(inv.errs) = 1
    /\ Unsupported(inv.errs[1])
    /\ word \in inv.errs[1]

\* C11: when the request carries temperature and the first call is rejected
\* with an unsupported-parameter error naming temperature, generate makes a
\* second call with the same arguments minus temperature, and a returned
\* result has retry_count = 1 and params_used["temperature"] = False.
C11_TemperatureRetry ==
    (RejectedNaming(call, "temperature") /\ "temperature" \in DOMAIN call.sent[1]) =>
        /\ Len(call.sent) = 2
        /\ call.sent[2] = Pop(call.sent[1], "temperature")
        /\ call.pc \in {"call2", "returned", "raised"}
        /\ call.pc = "returned" =>
              /\ call.res.retry_count = 1
              /\ call.res.params_used["temperature"] = "False"

\* The retry without temperature succeeded and the result was returned.
C11_Witness ==
    /\ call.pc = "returned"
    /\ RejectedNaming(call, "temperature")
    /\ "temperature" \in DOMAIN call.sent[1]
    /\ call.res.text # ""

\* The strippable kwargs and the params_used key that records each.
Strippable == {"temperature", "text", "reasoning"}
ParamsKey(p) ==
    IF p = "temperature" THEN "temperature"
    ELSE IF p = "text" THEN "verbosity" ELSE "reasoning_effort"

\* The strippable kwargs a BadRequestError message names.
Names(msg) ==
    {p \in Strippable :
        \/ p = "temperature" /\ "temperature" \in msg
        \/ p = "text" /\ ("text" \in msg \/ "verbosity" \in msg)
        \/ p = "reasoning" /\ ("reasoning" \in msg \/ "effort" \in msg)}

\* p is present in the first request; the text block counts as the verbosity
\* block when it carries a verbosity.
Carries(kwargs, p) ==
    /\ p \in DOMAIN kwargs
    /\ p = "text" => kwargs[p] # "format"

\* C12: for each strippable parameter p present in the request, when the
\* upstream rejects p (and only p) as unsupported, the retry request is the
\* original minus exactly p, and a returned result has retry_count = 1 and
\* marks p as False in params_used.
C12_StripMarksFalse ==
    \A p \in Strippable :
        (/\ call.pc # "idle"
         /\ Len(call.errs) = 1
         /\ Unsupported(call.errs[1])
         /\ Names(call.errs[1]) = {p}
         /\ Carries(call.sent[1], p)) =>
            /\ Len(call.sent) = 2
            /\ call.sent[2] = Pop(call.sent[1], p)
            /\ call.pc = "returned" =>
                  /\ call.res.retry_count = 1
                  /\ ParamsKey(p) \in DOMAIN call.res.params_used
                  /\ call.res.params_used[ParamsKey(p)] = "False"

\* The configured ceiling of a kind of identity.
Ceiling(kind) ==
    IF kind = "user" THEN rlCfg.USER_RL_PER_MIN
    ELSE IF kind = "ip" THEN rlCfg.IP_RL_PER_MIN ELSE rlCfg.TOKEN_RL_PER_MIN

\* The keys of the user and token calls counted so far.
UserTokenKeys == {k \in DOMAIN rlHist : k[1] \in {"user", "token"}}

\* C13 as stated: with a stable backend, the j-th allow_user / allow_token
\* call of an identity in a minute bucket returns true exactly when j <= N,
\* N being the configured ceiling; every bucket counts from zero.
C13_ExactlyConfiguredN ==
    rlLast.stable =>
        \A k \in UserTokenKeys : \A j \in 1..Len(rlHist[k]) :
            rlHist[k][j] = PyBool(j <= Ceiling(k[1]))

\* C13 amended: the same with N = max(1, configured ceiling).
C13_ExactlyN ==
    rlLast.stable =>
        \A k \in UserTokenKeys : \A j \in 1..Len(rlHist[k]) :
            rlHist[k][j] = PyBool(j <= Max(1, Ceiling(k[1])))

\* An identity was refused in one bucket (its third call, the ceiling
\* being two) and allowed again in the next, on the in-process counter.
C13_Witness ==
    /\ rlLast.stable
    /\ ~rlCfg.REDIS_URL
    /\ \E k1, k2 \in UserTokenKeys :
          /\ k1[1] = k2[1] /\ k1[2] = k2[2] /\ k2[3] = k1[3] + 1
          /\ Ceiling(k1[1]) = 2
          /\ rlHist[k1] = <<"True", "True", "False">>
          /\ rlHist[k2] = <<"True">>

\* The value of the counter kept for key k at time t: the shared one when a
\* store is configured, else the in-process one.
CounterOf(k, mem, t) ==
    IF rlCfg.REDIS_URL
    THEN IF StoreLive(rlStore, k, t) THEN rlStore[k].val ELSE 0
    ELSE IF k[2] \in DOMAIN mem /\ mem[k[2]][2] = k[3] THEN mem[k[2]][1] ELSE 0

\* C14: for a non-empty ip, allow_ip counts the call on the counter of
\* (ip, minute bucket) and returns true for the first N calls of the bucket
\* and false for the later ones, N being the per-IP ceiling.
C14_IpCounted ==
    rlLast.stable =>
        \A k \in {x \in DOMAIN rlHist : x[1] = "ip"} :
            /\ \A j \in 1..Len(rlHist[k]) :
                  rlHist[k][j] = PyBool(j <= Max(1, Ceiling("ip")))
            /\ k[3] = _minute_bucket(0, now) => CounterOf(k, _mem_ip, now) = Len(rlHist[k])

\* The in-process counters of a kind of identity.
MemOf(kind) ==
    IF kind = "user" THEN _mem_user ELSE IF kind = "ip" THEN _mem_ip ELSE _mem_token

\* C15: every allow_user / allow_ip / allow_token call returns a boolean;
\* when the shared store raised during the call, the value returned is the
\* in-process count compared with the ceiling, and an in-process count never
\* carries calls of an earlier minute bucket.
C15_AlwaysBoolean ==
    /\ rlLast.n > 0 => rlLast.result \in {"True", "False"}
    /\ rlLast.raised =>
          /\ rlLast.id \in DOMAIN MemOf(rlLast.kind)
          /\ rlLast.result =
                PyBool(MemOf(rlLast.kind)[rlLast.id][1] <= Max(1, Ceiling(rlLast.kind)))
    /\ \A kind \in {"user", "ip", "token"} : \A id \in DOMAIN MemOf(kind) :
          LET k == <<kind, id, MemOf(kind)[id][2]>>
          IN k \in DOMAIN rlHist /\ MemOf(kind)[id][1] <= Len(rlHist[k])

\* C16: an allow_user / allow_ip / allow_token call with None or the empty
\* string returns true and changes no counter, in-process or shared.
C16_MissingIdentityAllowed ==
    [][(rlLast'.n = rlLast.n + 1 /\ rlLast'.id \in {"None", ""}) =>
          /\ rlLast'.result = "True"
          /\ UNCHANGED <<rlStore, _mem_user, _mem_ip, _mem_token>>]_vars

\* A call without identity was made while counters of both backends held
\* counts.
C16_Witness ==
    /\ rlLast.n > 0
    /\ rlLast.id \in {"None", ""}
    /\ rlLast.result = "True"
    /\ DOMAIN rlStore # {}
    /\ DOMAIN _mem_user # {}

\* Task t is inside a block guarded by alock(key).
Inside(t, key) == tasks[t].pc = "inside" /\ tasks[t].key = key

\* C17: for any key, at most one task is inside a block guarded by
\* alock(key), whatever the backend does (local lock, shared lock, a failing
\* store, an acquisition that times out).
C17_MutualExclusion ==
    \A key \in LockKeys : \A t1, t2 \in Tasks :
        (Inside(t1, key) /\ Inside(t2, key)) => t1 = t2

\* Task t is waiting for a lock.
Waiting(t) == tasks[t].pc \in {"redis_wait", "local_wait"}

\* C18: a task that cannot get the lock within the timeout given to alock
\* stops waiting and falls back: no task waits longer than its timeout, on
\* the shared lock or on the local one, and a task whose acquisition timed
\* out does not run the guarded block.
C18_BoundedWait ==
    \A t \in Tasks :
        /\ Waiting(t) => now <= tasks[t].since + tasks[t].timeout
        /\ tasks[t].pc = "inside" => tasks[t].redis_lock # "unowned"

\* The asyncio.Lock of key is held for a task that is inside its block.
LocalHolderInside(key) ==
    \E t \in Tasks : Inside(t, key) /\ LockOf(key).by = t /\ tasks[t].local_lock = key

\* The shared lock of key is held for a task that is inside its block.
SharedHolderInside(key) ==
    /\ Inside(redisLocks[key].owner, key)
    /\ tasks[redisLocks[key].owner].redis_lock = "owned"

\* C19 as stated: a lock is held only for a task that is inside its block;
\* once the block is left, normally or by an exception, the lock is free for
\* the next acquirer.
C19_ReleasedOnExit ==
    \A key \in LockKeys :
        /\ LockOf(key).locked => LocalHolderInside(key)
        /\ RedisHeld(key, now) => SharedHolderInside(key)

\* C19 amended: the same, except for a shared lock whose release call
\* failed, which stays in the store until its timeout expires.
C19_ReleasedUnlessStoreFails ==
    \A key \in LockKeys :
        /\ LockOf(key).locked => LocalHolderInside(key)
        /\ RedisHeld(key, now) =>
              \/ SharedHolderInside(key)
              \/ /\ redisLocks[key].orphan
                 /\ \E timeout \in TimeoutsTried : redisLocks[key].expires <= now + timeout

\* A block was left by an exception and the asyncio.Lock is free again for
\* the task queued on it.
C19_Witness ==
    /\ lkLast.op = "exit_exc"
    /\ \E key \in LockKeys :
          /\ key \in DOMAIN _locks
          /\ ~_locks[key].locked
          /\ _locks[key].waiters # <<>>

\* The last step contacted the shared store although the flag was set.
ContactAfterDowngrade == lkLast.shared /\ lkLast.after

\* C20 as stated: once set, the flag stays set, and from then on no step of
\* a cache or lock operation contacts the shared store.
C20_NoContactAfterDowngrade ==
    /\ [][_redis_disabled => _redis_disabled']_vars
    /\ [](~ContactAfterDowngrade)

\* C20 amended: once set, the flag stays set, and no aget, aset or alock
\* call made from then on contacts the shared store; only an acquisition
\* that was pending and the release of a shared lock taken earlier still do.
C20_NoNewContactAfterDowngrade ==
    /\ [][_redis_disabled => _redis_disabled']_vars
    /\ [](ContactAfterDowngrade => lkLast.op \in {"acquire", "exit", "exit_exc"})

\* After the downgrade a value was stored in the local cache and a lock was
\* taken on the local lock, with REDIS_URL set.
C20_Witness ==
    /\ lkCfg.REDIS_URL
    /\ _redis_disabled
    /\ lkLast = [op |-> "alock", shared |-> FALSE, after |-> TRUE]
    /\ DOMAIN cache # {}
    /\ \E t \in Tasks : tasks[t].pc = "inside" /\ tasks[t].mgr = "local"

\* Request j came in after request i had returned an ok result that its
\* process cached, for the same key and not forced, and passed the budget
\* gate.
FollowsCached(i, j) ==
    /\ reqs[i].pc = "done" /\ reqs[i].path = "ok"
    /\ reqs[i].result.model = PRIMARY_MODEL
    /\ i \in reqs[j].prior
    /\ SameKey(reqs[i], reqs[j])
    /\ ~reqs[j].force_new
    /\ reqs[j].path # "budget"

\* C21: with a shared store configured, an ok result cached by one process
\* is served as a cache hit, without upstream call, to a non-forced request
\* for the same key that another process handles within the TTL.
C21_SharedAcrossProcesses ==
    lkCfg.REDIS_URL =>
        \A i, j \in 1..Len(reqs) :
            (FollowsCached(i, j) /\ procOf[i] # procOf[j]) =>
                /\ reqs[j].path = "cached"
                /\ reqs[j].result.cached
                /\ ~Called(reqs[j])

\* C22: choose_model depends on the experiment mode, the split and the
\* request id only: single and shadow give the primary model; ab gives the
\* secondary model exactly when the last four hex digits of the request id,
\* read as a number, modulo 100 are below the split clamped to 0..100.  The
\* same request id always gets the same model, a split of 0 or less never
\* gives the secondary model and a split of 100 or more always does.
Bucket(req_id) ==
    LET n == Len(req_id)
    IN  (4096 * req_id[n - 3] + 256 * req_id[n - 2] + 16 * req_id[n - 1] + req_id[n]) % 100

C22_ChooseModelRoutes ==
    fnArg.fn = "choose_model" =>
        \A k \in 1..Len(fnRet) :
            LET split == IF cfg.AB_SPLIT < 0 THEN 0
                         ELSE IF cfg.AB_SPLIT > 100 THEN 100 ELSE cfg.AB_SPLIT
            IN  /\ fnRet[k] \in {PRIMARY_MODEL, SECONDARY_MODEL}
                /\ cfg.EXPERIMENT_MODE \in {"single", "shadow"} => fnRet[k] = PRIMARY_MODEL
                /\ cfg.EXPERIMENT_MODE = "ab" =>
                      /\ fnRet[k] = SECONDARY_MODEL <=> Bucket(fnArg.req_id) < split
                      /\ cfg.AB_SPLIT <= 0 => fnRet[k] = PRIMARY_MODEL
                      /\ cfg.AB_SPLIT >= 100 => fnRet[k] = SECONDARY_MODEL
                /\ fnRet[k] = fnRet[1]

\* An ab configuration with a split of 20 routed one request id to the
\* secondary model, twice.
C22_Witness ==
    /\ fnArg.fn = "choose_model"
    /\ cfg.EXPERIMENT_MODE = "ab"
    /\ cfg.AB_SPLIT = 20
    /\ fnRet = <<SECONDARY_MODEL, SECONDARY_MODEL>>

\* C23: in ab mode with a split s in 0..100, of the 65536 values of the last
\* four hex digits the share routed to the secondary model differs from
\* s / 100 by less than one percentage point:
\* | n / 65536 - s / 100 | < 1 / 100, for n the number routed to secondary.
AllTails == 16 * 16 * 16 * 16

Abs(x) == IF x < 0 THEN 0 - x ELSE x

C23_SplitWithinOnePoint ==
    (fnArg.fn = "choose_model_all" /\ fnRet # <<>>) =>
        Abs(100 * fnRet[1] - cfg.AB_SPLIT * AllTails) < AllTails

\* A split of 50 sends 32786 of the 65536 tails to the secondary model, 18
\* more than half of them.
C23_Witness ==
    /\ fnArg.fn = "choose_model_all"
    /\ cfg.AB_SPLIT = 50
    /\ fnRet = <<32786>>

\* C24: in shadow mode the shadow calls change neither the payload returned
\* to the caller nor the cache; each shadow call that completed is logged as
\* one event with status "shadow" and a failed one as none; a failing shadow
\* call leaves the caller's result alone and the calls to the remaining
\* shadow targets are still made.
ShadowRows(i, m) ==
    {row \in BagToSet(events) :
        row.status = "shadow" /\ row.request_id = i /\ row.model = m}

\* The shadow targets of request i no call has ended for.
TargetsLeft(i) ==
    SubSeq(cfg.SHADOW_TARGETS, Len(reqs[i].shadowed) + 1, Len(cfg.SHADOW_TARGETS))

\* A step of a shadow task: no request enters or moves on.
ShadowStep ==
    /\ shadow' # shadow
    /\ Len(reqs') = Len(reqs)
    /\ \A i \in 1..Len(reqs) : reqs'[i].pc = reqs[i].pc

C24_ShadowLogged ==
    \A i \in 1..Len(reqs) :
        /\ \A k \in 1..Len(reqs[i].shadowed) :
              LET s == reqs[i].shadowed[k]
              IN  /\ s.model = cfg.SHADOW_TARGETS[k]
                  /\ s.outcome = "returned" =>
                        /\ Cardinality(ShadowRows(i, s.model)) = 1
                        /\ \A row \in ShadowRows(i, s.model) : CopiesIn(row, events) = 1
                  /\ s.outcome = "raised" => ShadowRows(i, s.model) = {}
        /\ \A k \in 1..Len(TargetsLeft(i)) : ShadowRows(i, TargetsLeft(i)[k]) = {}
        /\ (reqs[i].path = "ok" /\ TargetsLeft(i) # <<>>) =>
              \E j \in 1..Len(shadow) :
                  /\ shadow[j].request_id = i
                  /\ shadow[j].models = TargetsLeft(i)

C24_ShadowFrame ==
    ShadowStep =>
        /\ cache' = cache
        /\ cacheWrites' = cacheWrites
        /\ \A i \in 1..Len(reqs) :
              /\ reqs'[i].result = reqs[i].result
              /\ reqs'[i].path = reqs[i].path
              /\ reqs'[i].outcome = reqs[i].outcome

C24_ShadowOnlyLogs == []C24_ShadowLogged /\ [][C24_ShadowFrame]_vars

\* The call to the first shadow target failed and logged nothing, the call
\* to the second one completed and is logged; the caller has its ok result.
C24_Witness ==
    \E i \in 1..Len(reqs) :
        /\ reqs[i].path = "ok"
        /\ Len(reqs[i].shadowed) = 2
        /\ reqs[i].shadowed[1].outcome = "raised"
        /\ reqs[i].shadowed[2].outcome = "returned"
        /\ ShadowRows(i, SECONDARY_MODEL) = {}
        /\ ShadowRows(i, LegacyModel) # {}

\* A text that is a string with something else than white space in it.
IsText(t) == t \notin {"None", "", " "}

\* The texts the items of a list hold in their fields and blocks, and the
\* raw strings among their content.
FieldTexts(l, types) ==
    IF ~l.list THEN {}
    ELSE UNION { LET it == l.items[k]
                 IN  IF it.type \notin types THEN {}
                     ELSE {t \in {it.text, it.summary} : IsText(t)}
                          \cup {it.content.items[n].text : n \in
                                  {n \in 1..Len(it.content.items) :
                                      /\ it.content.items[n].kind # "str"
                                      /\ IsText(it.content.items[n].text)}}
               : k \in 1..Len(l.items) }

RawStrings(l) ==
    IF ~l.list THEN {}
    ELSE UNION { {l.items[k].content.items[n].text : n \in
                    {n \in 1..Len(l.items[k].content.items) :
                        /\ l.items[k].content.items[n].kind = "str"
                        /\ IsText(l.items[k].content.items[n].text)}}
               : k \in 1..Len(l.items) }

\* The joins of up to MaxJoined raw strings, each without its margins.
MaxJoined == 6
JoinsOf(raw) ==
    { Join(q) : q \in UNION { [1..n -> {Strip(t) : t \in raw}] : n \in 1..MaxJoined } }

Extracted == fnArg.fn = "_extract_text" /\ fnRet # <<>>

\* The text of the first item of a list, among those of the given types,
\* that holds one ("None": there is none).
FirstHeld(l, types) ==
    LET holders == {k \in 1..Len(l.items) :
                        FieldTexts(List(<<l.items[k]>>), types) # {}}
    IN  IF ~l.list \/ holders = {} THEN "None"
        ELSE CHOOSE t \in FieldTexts(
                 List(<<l.items[CHOOSE k \in holders : \A h \in holders : k <= h]>>),
                 types) : TRUE

\* C25: _extract_text returns the text of the first strategy that finds
\* non-blank text: the output_text field; the output list, on a first pass
\* without its reasoning items and on a second pass with them; the data
\* list with the same two passes; the joined raw string fragments.  A
\* non-blank output_text wins whatever the lists hold, and the data list is
\* consulted only when the output list holds no text.
C25_FirstStrategyWins ==
    Extracted =>
        LET resp == fnArg.resp
            raw == RawStrings(resp.output) \cup RawStrings(resp.data)
            tries == << resp.output_text,
                        FirstHeld(resp.output, ItemTypes \ {"reasoning"}),
                        FirstHeld(resp.output, ItemTypes),
                        FirstHeld(resp.data, ItemTypes \ {"reasoning"}),
                        FirstHeld(resp.data, ItemTypes) >>
            hits == {n \in 1..Len(tries) : IsText(tries[n])}
        IN  IF hits # {}
            THEN fnRet[1] = tries[CHOOSE n \in hits : \A h \in hits : n <= h]
            ELSE IF raw # {} THEN fnRet[1] \in JoinsOf(raw)
            ELSE fnRet[1] = ""

\* C26: reasoning items are skipped on the first pass: when the output list
\* has a reasoning item and a non-reasoning item that both hold text, the
\* text of the non-reasoning item is returned, whatever the order and
\* wherever the reasoning item holds its text; a reasoning item's text is
\* returned only when no non-reasoning item holds text.
C26_ReasoningSkipped ==
    (Extracted /\ ~IsText(fnArg.resp.output_text)) =>
        LET thoughts == FieldTexts(fnArg.resp.output, {"reasoning"})
            others == FieldTexts(fnArg.resp.output, ItemTypes \ {"reasoning"})
        IN  /\ (thoughts # {} /\ others # {}) => fnRet[1] \in others
            /\ fnRet[1] \in thoughts => others = {}

\* C27: for a response without non-blank text in output_text, in the output
\* list and in the data list, _extract_text returns "" and generate returns
\* a result whose text is "".
C27_NoTextGivesEmpty ==
    LET resp == fnArg.resp
    IN  ( /\ Extracted
          /\ ~IsText(resp.output_text)
          /\ FieldTexts(resp.output, ItemTypes) \cup RawStrings(resp.output) = {}
          /\ FieldTexts(resp.data, ItemTypes) \cup RawStrings(resp.data) = {} ) =>
            /\ fnRet[1] = ""
            /\ Len(fnRet) = 3 => (fnRet[2] = "returned" /\ fnRet[3] = "")

\* An output list of a reasoning item without any text field and a message
\* item with a blank text and an empty content list, no data list: both
\* _extract_text and generate gave "".
C27_Witness ==
    /\ Extracted
    /\ Len(fnRet) = 3
    /\ fnArg.resp.output_text = "None"
    /\ fnArg.resp.output.list
    /\ Len(fnArg.resp.output.items) = 2
    /\ fnArg.resp.output.items[1].type = "reasoning"
    /\ fnArg.resp.output.items[2].text = " "
    /\ ~fnArg.resp.data.list
    /\ fnRet = <<"", "returned", "">>

\* C28: daypart_for is total over the minutes of the day 0..1439: each maps
\* to exactly one of the seven labels, by the bands pre-dawn [240,360),
\* early morning [360,480), morning [480,690), midday [690,810), afternoon
\* [810,1020), evening [1020,1230), late night for every other minute.
Bands ==
    {<<"pre-dawn", 240, 360>>, <<"early morning", 360, 480>>, <<"morning", 480, 690>>,
     <<"midday", 690, 810>>, <<"afternoon", 810, 1020>>, <<"evening", 1020, 1230>>,
     <<"late night", 1230, 1440>>, <<"late night", 0, 240>>}

InBand(m) == {band \in Bands : band[2] <= m /\ m < band[3]}

MinuteOfDay == 60 * fnArg.hour + fnArg.minute

C28_DaypartBands ==
    (fnArg.fn = "daypart_for" /\ fnRet # <<>>) =>
        /\ MinuteOfDay \in 0..1439
        /\ fnRet[1] \in Dayparts
        /\ Cardinality(InBand(MinuteOfDay)) = 1
        /\ \A band \in InBand(MinuteOfDay) : fnRet[1] = band[1]

\* 05:59, minute 359, is the last minute of pre-dawn.
C28_Witness ==
    /\ fnArg.fn = "daypart_for"
    /\ fnArg.hour = 5
    /\ fnArg.minute = 59
    /\ fnRet = <<"pre-dawn">>

\* C29: with a salt, directive selection is reproducible: for a fixed
\* (minute_of_day, tone, salt) every call to pick returns the same directive
\* id, whatever calls were made before it.
C29_SaltedPickReproducible ==
    fnArg.fn = "pick" =>
        \A a, b \in 1..Len(fnRet) :
            ( /\ fnRet[a].salt # "None"
              /\ fnRet[a].salt = fnRet[b].salt
              /\ fnRet[a].minute_of_day = fnRet[b].minute_of_day
              /\ fnRet[a].tone = fnRet[b].tone ) =>
                fnRet[a].id = fnRet[b].id

\* The number of places of str where sub occurs.
Occurrences(str, sub) ==
    Cardinality({k \in 1..(Len(str) - Len(sub) + 1) : SubSeq(str, k, k + Len(sub) - 1) = sub})

\* C30: for every timezone and format, the poem of every result of
\* generate_poem with status "ok" contains the result's time_used verbatim
\* exactly once, whatever text the upstream model returned.
C30_TimeOnceInPoem ==
    (fnArg.fn = "generate_poem" /\ fnRet # <<>> /\ fnRet[2].status = "ok") =>
        Occurrences(fnRet[2].poem, fnRet[2].time_used) = 1

\* The verbosity a request carries ("None": none): the text block of a
\* reasoning-family request always carries the format.
VerbosityOf(kw) ==
    IF "text" \in DOMAIN kw /\ kw["text"] # "format" THEN kw["text"] ELSE "None"

\* The reasoning effort a request carries ("None": none).
EffortOf(kw) == IF "reasoning" \in DOMAIN kw THEN kw["reasoning"] ELSE "None"

\* The first request of generate(model, temperature) under the configured
\* verbosity raw_v and reasoning effort raw_e is shaped by the model family.
Shaped(kw, model, temperature, raw_v, raw_e) ==
    IF model \in {"gpt-5", "gpt-5-mini", "gpt-5-nano"}
    THEN /\ "temperature" \notin DOMAIN kw
         /\ VerbosityOf(kw) = IF raw_v \in {"low", "medium", "high"} THEN raw_v ELSE "None"
         /\ EffortOf(kw) = IF raw_e \in {"minimal", "low", "medium", "high"}
                           THEN raw_e ELSE "None"
    ELSE /\ "temperature" \in DOMAIN kw <=> temperature # "None"
         /\ temperature # "None" => kw["temperature"] = temperature
         /\ "text" \notin DOMAIN kw
         /\ "reasoning" \notin DOMAIN kw

\* C31: for a model whose name starts with "gpt-5" the upstream request never
\* contains temperature, even when the caller supplies one, and contains
\* verbosity and reasoning effort exactly when the configured value is in
\* {low, medium, high} and {minimal, low, medium, high}; for any other model
\* the request contains temperature exactly when the caller supplies one and
\* never verbosity or reasoning effort.
C31_FamilyShaping ==
    [][\A model \in AdapterModels, temperature \in Temperatures,
          raw_v \in EnvVerbosity, raw_e \in EnvEffort :
          AdapterGenerate(model, temperature, raw_v, raw_e) =>
              /\ Len(call'.sent) = 1
              /\ Shaped(call'.sent[1], model, temperature, raw_v, raw_e)]_vars

\* A reasoning-family request went out whose configured verbosity and
\* effort were both outside their allow-sets: neither was sent.
C31_Witness ==
    /\ call.pc = "call1"
    /\ call.model = "gpt-5"
    /\ call.sent[1]["text"] = "format"
    /\ "reasoning" \notin DOMAIN call.sent[1]

\* The answer to a first call after which generate retries: an
\* unsupported-parameter rejection naming a strippable parameter that the
\* request kw holds.
RetryEligible(resp, kw) ==
    /\ resp.kind = "bad"
    /\ Unsupported(resp.msg)
    /\ \E p \in Strippable : p \in Names(resp.msg) /\ p \in DOMAIN kw

\* C32: generate makes a second call only when its first call fails with an
\* unsupported-parameter rejection that names a strippable parameter present
\* in the request; after any other failure of the first call (another
\* rejection, any other exception, a rejection naming a parameter that was
\* not sent) it has made exactly one call and the error propagates.
C32_RetryOnlyWhenStrippable ==
    [][\A resp \in UpstreamResponses :
          (call.pc = "call1" /\ AdapterRespond(resp)) =>
              IF resp.kind = "ok"
              THEN call'.pc = "returned" /\ Len(call'.sent) = 1
              ELSE IF RetryEligible(resp, call.sent[1])
              THEN call'.pc = "call2" /\ Len(call'.sent) = 2
              ELSE call'.pc = "raised" /\ Len(call'.sent) = 1]_vars

\* A request without temperature was rejected with a message naming
\* temperature: one call was made and the error propagated.
C32_Witness ==
    /\ call.pc = "raised"
    /\ Len(call.sent) = 1
    /\ Len(call.errs) = 1
    /\ Unsupported(call.errs[1])
    /\ Names(call.errs[1]) = {"temperature"}
    /\ "temperature" \notin DOMAIN call.sent[1]

\* The ids returned by the calls to pick made before the k-th.
ReturnedBefore(k) == {fnRet[j].id : j \in 1..(k - 1)}

\* C33: pick returns a directive whose id is already in the recent-id
\* history only after 5 consecutive samples each gave an id in the history;
\* otherwise the returned id was absent from the history before the call.
\* Each call appends exactly the returned id to the history.
C33_RepeatOnlyAfterFiveTries ==
    fnArg.fn = "pick" =>
        /\ _recent_ids = [k \in 1..Len(fnRet) |-> fnRet[k].id]
        /\ \A k \in 1..Len(fnRet) :
              fnRet[k].id \in ReturnedBefore(k) => fnRet[k].rejected = 5

\* An unsalted call sampled a recent id five times and line 294 then
\* returned a recent id.
C33_Witness ==
    /\ fnArg.fn = "pick"
    /\ \E k \in 1..Len(fnRet) :
          /\ fnRet[k].salt = "None"
          /\ fnRet[k].minute_of_day = 1
          /\ fnRet[k].id \in ReturnedBefore(k)
          /\ fnRet[k].rejected = 5

\* The lifetime asked for by an aset call, in units of the default lifetime.
Lifetime(ttl_seconds) == IF ttl_seconds = NoneInt THEN CacheTTL ELSE ttl_seconds

\* The last aset was followed by an aget of the same key that ended on the
\* same backend.
ReadAfterWrite ==
    /\ fnArg.fn = "cache"
    /\ Len(fnRet) = 2
    /\ fnRet[2].key = fnRet[1].key
    /\ fnRet[2].shared = fnRet[1].shared
    /\ ~fnRet[2].raised

\* C34: an entry written with aset(key, value, ttl_seconds) is returned by
\* aget(key) until ttl_seconds have elapsed since the write and is absent
\* afterwards, on the shared store and on the local fallback alike; without
\* a ttl the lifetime is the configured default.
C34_EntryLivesForTTL ==
    ReadAfterWrite =>
        fnRet[2].result =
            IF fnRet[2].at < fnRet[1].at + Lifetime(fnRet[1].ttl_seconds)
            THEN fnRet[1].value ELSE "None"

\* The renderings of the local minute m of the day, in either format.
RenderingsOf(m) == {time_str(HourOf(m), MinuteOf(m), f) : f \in {"12h", "24h"}}

\* C35: the time string (time_used), the daypart and the minute in the cache
\* key of one request all denote the same local minute, even when the wall
\* clock crosses a minute boundary while generate_poem derives the context.
C35_OneLocalMinute ==
    fnArg.fn = "generate_poem_context" =>
        \A k \in 1..Len(fnRet) :
            ~fnRet[k].payload.cached =>
                /\ fnRet[k].payload.time_used \in RenderingsOf(fnRet[k].minute)
                /\ fnRet[k].daypart = daypart_for(HourOf(fnRet[k].minute),
                                                  MinuteOf(fnRet[k].minute))

\* The format of a time string: HH:MM, or the 12-hour clock with AM / PM.
Is24h(str) == Len(str) = 5 /\ SubSeq(str, 3, 3) = ":"
Is12h(str) ==
    /\ Len(str) \in {7, 8}
    /\ SubSeq(str, Len(str) - 2, Len(str)) \in {" AM", " PM"}
    /\ SubSeq(str, Len(str) - 5, Len(str) - 5) = ":"

\* C36: the time_used of every result returned by generate_poem is rendered
\* in the time format the request asked for (24h gives HH:MM; 12h or auto
\* gives the 12-hour clock with AM/PM), results served from the cache
\* included.
C36_FormatAskedFor ==
    fnArg.fn = "generate_poem_context" =>
        \A k \in 1..Len(fnRet) :
            IF fnRet[k].fmt = "24h" THEN Is24h(fnRet[k].payload.time_used)
            ELSE Is12h(fnRet[k].payload.time_used)

\* In this step a call to generate_poem entered and returned a result
\* marked cached.
ReturnsCached ==
    /\ Len(reqs') = Len(reqs) + 1
    /\ reqs'[Len(reqs')].pc = "done"
    /\ reqs'[Len(reqs')].result.cached

\* A request that returned a cached result made no adapter call.
C37_NoCallForCached ==
    \A i \in 1..Len(reqs) :
        (reqs[i].pc = "done" /\ reqs[i].result.cached) =>
            /\ reqs[i].calls = 0
            /\ reqs[i].outcome = "none"
            /\ reqs[i].inv = IdleInvocation

CallsOn(key) == {i \in 1..Len(fnRet) : ~Missing(fnRet[i].id) /\ fnRet[i].key = key}
AllowedOn(key) == {i \in CallsOn(key) : fnRet[i].result = "True"}
KeysCalled == {fnRet[i].key : i \in 1..Len(fnRet)}

\* The backend was the same for every call: the shared store never raised.
ConsistentBackend == \A i \in 1..Len(fnRet) : ~fnRet[i].raised

\* C38: with the backend consistently shared or consistently local, for any
\* interleaving of concurrent allow_user (or allow_token) calls for one
\* identity in one minute bucket no increment is lost (the shared counter
\* equals the number of calls whose incr returned, each got its own value)
\* and the number of calls that return true never exceeds the ceiling N.
C38_NoLostIncrement ==
    (fnArg.fn = "allow" /\ ConsistentBackend) =>
        \A key \in KeysCalled :
            /\ Cardinality(AllowedOn(key)) <= Max(1, Ceiling(key[1]))
            /\ rlCfg.REDIS_URL =>
                  /\ \A i, j \in {c \in CallsOn(key) : fnRet[c].pc # "incr"} :
                        i # j => fnRet[i].val # fnRet[j].val
                  /\ StoreLive(rlStore, key, now) =>
                        rlStore[key].val =
                            Cardinality({c \in CallsOn(key) : fnRet[c].pc # "incr"})

\* C39: within one minute bucket and one process, the number of allow_user
\* (or allow_token) calls for an identity that return true never exceeds
\* the ceiling N, even when the shared counter store becomes unreachable or
\* reachable again during the bucket.
C39_CeilingAcrossFallback ==
    \A k \in UserTokenKeys :
        Cardinality({j \in 1..Len(rlHist[k]) : rlHist[k][j] = "True"})
            <= Max(1, Ceiling(k[1]))


\* The raw strings among the content of the items of a list, each without
\* its margins, in document order.
RECURSIVE RawOfBlocks(_)
RawOfBlocks(blocks) ==
    IF blocks = <<>> THEN <<>>
    ELSE (IF Head(blocks).kind = "str" /\ IsText(Head(blocks).text)
          THEN << Strip(Head(blocks).text) >> ELSE <<>>)
         \o RawOfBlocks(Tail(blocks))

RECURSIVE RawOfItems(_)
RawOfItems(items) ==
    IF items = <<>> THEN <<>>
    ELSE RawOfBlocks(Head(items).content.items) \o RawOfItems(Tail(items))

RawInOrder(l) == IF l.list THEN RawOfItems(l.items) ELSE <<>>

\* No field and no block of the response holds text: the result can only
\* come from the raw strings.
FallsBackToFragments ==
    /\ Extracted
    /\ ~IsText(fnArg.resp.output_text)
    /\ FieldTexts(fnArg.resp.output, ItemTypes) = {}
    /\ FieldTexts(fnArg.resp.data, ItemTypes) = {}
    /\ RawInOrder(fnArg.resp.output) \o RawInOrder(fnArg.resp.data) # <<>>

\* C40: when _extract_text falls back to joining raw string fragments, each
\* raw string content block of the response appears exactly once in the
\* returned text, in document order (those of the output list, then those
\* of the data list), joined by newlines.
C40_FragmentsOnce ==
    FallsBackToFragments =>
        fnRet[1] = Join(RawInOrder(fnArg.resp.output) \o RawInOrder(fnArg.resp.data))

====
